---- MODULE Spec2Model ----
(***************************************************************************)
(* chamber: an ephemeral Tart VM, an SSH connection into it and a terminal  *)
(* proxy for one remote command.                                            *)
(*                                                                          *)
(*   Spec      the orchestrator runCommand / run with the VM handle, the    *)
(*             supervisor goroutine and the interrupt handler               *)
(*   FairSpec  Spec with weak fairness on the program's own goroutines (the *)
(*             operator, a running guest and the remote command owe nothing) *)
(*   SpecVM    the VM handle driven by an arbitrary caller                  *)
(*   SpecTerm  Terminal.RunInteractiveCommand with its goroutines           *)
(***************************************************************************)
EXTENDS Integers, Sequences, FiniteSets, TLC

\* ------------------------------------------------------------------ bounds
MaxExitCode == 2
MaxCalls == 4
MaxResizes == 2
MaxInput == 1
MaxAttempts == 3
MaxMounts == 2
MaxDirs == 2
MaxOutLen == 3

ExitCodes == 0..MaxExitCode

\* ------------------------------------------------------------------ errors
\* A Go error is its chain of messages, outermost first, and the exit status
\* it carries (-1 when it carries none). fmt.Errorf("m: %w", e) is Wrap.
Nil == [msgs |-> <<>>, code |-> -1]
Err(m) == [msgs |-> <<m>>, code |-> -1]
Wrap(m, e) == [msgs |-> <<m>> \o e.msgs, code |-> e.code]

ErrTartFailed(verb) == [msgs |-> <<"tart command returned non-zero exit code", verb>>, code |-> -1]
CtxCanceled == Err("context canceled")
ExitError(n) == [msgs |-> <<"ssh.ExitError">>, code |-> n]
ExitMissingError == Err("ssh.ExitMissingError")
SSHError == Err("ssh: request failed")

\* Cmd: the error of one control-plane invocation. A context that is already
\* done makes exec fail with the context's error; a non-zero exit is
\* ErrTartFailed.
Cmd(ctxDone, ok, verb) ==
    IF ctxDone THEN CtxCanceled
    ELSE IF ok THEN Nil
    ELSE ErrTartFailed(verb)

\* session.Wait: what the transport reports for the remote command's end.
WaitErr(state, code) ==
    IF state = "dropped" THEN ExitMissingError
    ELSE IF code = 0 THEN Nil
    ELSE ExitError(code)

VARIABLES
    \* orchestrator (runCommand / run)
    pc, defers, ctxCancelled, interrupted, interactive, sshClient, mounted,
    remoteCmd, exitCode, ret, warnings, failedStep, vmCreated,
    \* VM handle, supervisor goroutine, control plane
    tartVM, runProc, runCtxCancelled, wg, errChan, sup, supErr, stopCmdErr,
    lastErr,
    \* histories
    trace, calls,
    \* terminal proxy (RunInteractiveCommand)
    tpc, tdefers, isTTY, rawMode, restored, restoreCount, rawEntered, tret,
    waitResult, waitDone, scopeCancelled, sessionClosed, established, panicking,
    wpc, sigBuf, notified, localSize, capSize, readSize, remoteSize, resizes,
    lateResizes, copyIn, copyOut, copyErr, inputs,
    \* connection waiter (WaitForSSH)
    spc, attempts, attemptLog, sret, peer,
    \* one call of a function on the control plane's or the command line's data
    pfn, pin, pout, pdone

orchVars == <<pc, defers, ctxCancelled, interrupted, interactive, sshClient,
              mounted, remoteCmd, exitCode, ret, warnings, failedStep, vmCreated>>
vmVars == <<tartVM, runProc, runCtxCancelled, wg, errChan, sup, supErr,
            stopCmdErr, lastErr>>
histVars == <<trace, calls>>
mainT == <<tpc, tdefers, tret, waitResult, waitDone, panicking>>
rawT == <<rawMode, restored, restoreCount, rawEntered>>
sessT == <<scopeCancelled, sessionClosed, established>>
watchT == <<wpc, sigBuf, notified, readSize, lateResizes>>
sizeT == <<localSize, capSize, remoteSize, resizes>>
copyT == <<copyIn, copyOut, copyErr, inputs>>
sshVars == <<spc, attempts, attemptLog, sret, peer>>
pureVars == <<pfn, pin, pout, pdone>>
termVars == <<mainT, rawT, sessT, watchT, sizeT, copyT, isTTY, sshVars, pureVars>>
orchNoCmd == <<pc, defers, ctxCancelled, interrupted, interactive, sshClient,
               mounted, exitCode, ret, warnings, failedStep, vmCreated>>
orchRest == <<defers, ctxCancelled, interrupted, interactive, sshClient,
              mounted, remoteCmd, exitCode, ret, warnings, failedStep, vmCreated>>
vars == <<orchVars, vmVars, histVars, termVars>>

notTerm == <<orchVars, vmVars, histVars, isTTY, sshVars, pureVars>>
notTermNoCmd == <<orchNoCmd, vmVars, histVars, isTTY, sshVars, pureVars>>

Last(s) == s[Len(s)]
Front(s) == SubSeq(s, 1, Len(s) - 1)
Has(s, e) == \E i \in 1..Len(s) : s[i] = e
Pos(s, e) == CHOOSE i \in 1..Len(s) : s[i] = e
Before(s, a, b) == Has(s, a) /\ Has(s, b) /\ Pos(s, a) < Pos(s, b)

\* ------------------------------------------------------- initial states
InitVM ==
    /\ tartVM = "absent"
    /\ runProc = "none"
    /\ runCtxCancelled = FALSE
    /\ wg = 0
    /\ errChan = <<>>
    /\ sup = "none"
    /\ supErr = Nil
    /\ stopCmdErr = Nil
    /\ lastErr = Nil

InitOrch ==
    /\ pc = "clone"
    /\ defers = <<"cancel">>
    /\ ctxCancelled = FALSE
    /\ interrupted = FALSE
    /\ interactive \in BOOLEAN
    /\ sshClient = "none"
    /\ mounted = FALSE
    /\ remoteCmd = "none"
    /\ exitCode = 0
    /\ ret = Nil
    /\ warnings = <<>>
    /\ failedStep = "none"
    /\ vmCreated = FALSE

InitHist ==
    /\ trace = <<>>
    /\ calls = <<>>

InitTermIdle ==
    /\ tpc = "idle"
    /\ tdefers = <<>>
    /\ rawMode = FALSE
    /\ restored = FALSE
    /\ restoreCount = 0
    /\ rawEntered = FALSE
    /\ tret = Nil
    /\ waitResult = Nil
    /\ waitDone = FALSE
    /\ scopeCancelled = FALSE
    /\ sessionClosed = FALSE
    /\ established = <<>>
    /\ panicking = FALSE
    /\ wpc = "none"
    /\ sigBuf = 0
    /\ notified = FALSE
    /\ localSize = 1
    /\ capSize = 0
    /\ readSize = 0
    /\ remoteSize = 0
    /\ resizes = 0
    /\ lateResizes = 0
    /\ copyIn = "none"
    /\ copyOut = "none"
    /\ copyErr = "none"
    /\ inputs = 0

InitSSHIdle ==
    /\ spc = "idle"
    /\ attempts = 0
    /\ attemptLog = <<>>
    /\ sret = Nil
    /\ peer = "down"

InitPureIdle ==
    /\ pfn = "none"
    /\ pin = <<>>
    /\ pout = <<>>
    /\ pdone = FALSE

Init ==
    /\ InitOrch /\ InitVM /\ InitHist /\ InitTermIdle /\ isTTY \in BOOLEAN
    /\ InitSSHIdle /\ InitPureIdle


\* ------------------------------------------------- VM handle (vm.go)
\* The operations take the caller's position before and after the call, so
\* that the orchestrator and the handle's other callers share them.

\* VM.Start: wg.Add(1) and the goroutine is launched; returns at once.
Start(from, to) ==
    /\ pc = from
    /\ wg' = wg + 1
    /\ sup' = "spawn"
    /\ pc' = to
    /\ UNCHANGED <<tartVM, runProc, runCtxCancelled, errChan, supErr, stopCmdErr, lastErr>>
    /\ UNCHANGED <<orchRest, histVars, termVars>>

\* The goroutine of Start: Cmd(vm.runningVMCtx, "run") begins.
SupSpawnSendsEarly ==
    /\ sup = "spawn"
    /\ \E ok \in BOOLEAN :
         LET e == Cmd(runCtxCancelled, ok /\ tartVM = "stopped", "run") IN
         IF e = Nil
         THEN /\ runProc' = "running"
              /\ tartVM' = "running"
              /\ sup' = "send"
              /\ UNCHANGED supErr
         ELSE /\ supErr' = e
              /\ sup' = "send"
              /\ UNCHANGED <<runProc, tartVM>>
    /\ UNCHANGED <<runCtxCancelled, wg, errChan, stopCmdErr, lastErr>>
    /\ UNCHANGED <<orchVars, histVars, termVars>>

SupSpawn ==
    /\ sup = "spawn"
    /\ \E ok \in BOOLEAN :
         LET e == Cmd(runCtxCancelled, ok /\ tartVM = "stopped", "run") IN
         IF e = Nil
         THEN /\ runProc' = "running"
              /\ tartVM' = "running"
              /\ sup' = "wait"
              /\ UNCHANGED supErr
         ELSE /\ supErr' = e
              /\ sup' = "send"
              /\ UNCHANGED <<runProc, tartVM>>
    /\ UNCHANGED <<runCtxCancelled, wg, errChan, stopCmdErr, lastErr>>
    /\ UNCHANGED <<orchVars, histVars, termVars>>

\* Cmd(vm.runningVMCtx, "run") returns once the run process has ended.
SupWait ==
    /\ sup = "wait"
    /\ runProc \in {"exitedOk", "exitedErr", "killed"}
    /\ supErr' = IF runProc = "exitedOk" THEN Nil ELSE ErrTartFailed("run")
    /\ sup' = "send"
    /\ UNCHANGED <<tartVM, runProc, runCtxCancelled, wg, errChan, stopCmdErr, lastErr>>
    /\ UNCHANGED <<orchVars, histVars, termVars>>

\* A channel without a buffer: the send waits for a receiver, and the handle
\* has none of its own.
SupSendUnbuffered ==
    /\ sup = "send"
    /\ Len(errChan) < 0
    /\ errChan' = Append(errChan, supErr)
    /\ sup' = "sent"
    /\ UNCHANGED <<tartVM, runProc, runCtxCancelled, wg, supErr, stopCmdErr, lastErr>>
    /\ UNCHANGED <<orchVars, histVars, termVars>>

\* vm.errChan <- err, on a channel of capacity 1.
SupSend ==
    /\ sup = "send"
    /\ Len(errChan) < 1
    /\ errChan' = Append(errChan, supErr)
    /\ sup' = "sent"
    /\ UNCHANGED <<tartVM, runProc, runCtxCancelled, wg, supErr, stopCmdErr, lastErr>>
    /\ UNCHANGED <<orchVars, histVars, termVars>>

\* defer vm.wg.Done()
SupDone ==
    /\ sup = "sent"
    /\ wg' = wg - 1
    /\ sup' = "done"
    /\ UNCHANGED <<tartVM, runProc, runCtxCancelled, errChan, supErr, stopCmdErr, lastErr>>
    /\ UNCHANGED <<orchVars, histVars, termVars>>

\* The run process ends by itself: the guest shuts down or the VM crashes. A
\* connection into the guest is then dead (the dialer's TCP keep-alive).
VMExit ==
    /\ runProc = "running"
    /\ \E ok \in BOOLEAN : runProc' = IF ok THEN "exitedOk" ELSE "exitedErr"
    /\ tartVM' = "stopped"
    /\ remoteCmd' = IF remoteCmd = "running" THEN "dropped" ELSE remoteCmd
    /\ UNCHANGED <<runCtxCancelled, wg, errChan, sup, supErr, stopCmdErr, lastErr>>
    /\ UNCHANGED <<pc, defers, ctxCancelled, interrupted, interactive, sshClient,
                   mounted, exitCode, ret, warnings, failedStep, vmCreated>>
    /\ UNCHANGED <<histVars, termVars>>

\* StopWithContext, first statement: _ = Cmd(ctx, "stop", "--timeout", "5").
\* tart stop succeeds only on a running VM, whose run process then ends.
StopGraceful(from, to, ctxDone) ==
    /\ pc = from
    /\ \E ok \in BOOLEAN :
         LET e == Cmd(ctxDone, ok /\ tartVM = "running", "stop") IN
         /\ stopCmdErr' = e
         /\ IF e = Nil
            THEN tartVM' = "stopped" /\ runProc' = "exitedOk"
            ELSE UNCHANGED <<tartVM, runProc>>
    /\ trace' = Append(trace, "stopInvoked")
    /\ pc' = to
    /\ UNCHANGED <<runCtxCancelled, wg, errChan, sup, supErr, lastErr>>
    /\ UNCHANGED <<orchRest, calls, termVars>>

\* vm.runningVMCtxCancel(): exec kills a run process that is still alive.
StopCancel(from, to) ==
    /\ pc = from
    /\ runCtxCancelled' = TRUE
    /\ IF runProc = "running"
       THEN runProc' = "killed" /\ tartVM' = "stopped"
       ELSE UNCHANGED <<runProc, tartVM>>
    /\ trace' = Append(trace, "ctxCancel")
    /\ pc' = to
    /\ UNCHANGED <<wg, errChan, sup, supErr, stopCmdErr, lastErr>>
    /\ UNCHANGED <<orchRest, calls, termVars>>

\* The value StopWithContext returns: the stop request's error is dropped.
StopResultPropagated(cmdErr) == cmdErr
StopResult(cmdErr) == Nil

\* vm.wg.Wait(); return nil
StopJoinNoWait(from, to) ==
    /\ pc = from
    /\ lastErr' = StopResult(stopCmdErr)
    /\ trace' = Append(trace, "stopReturned")
    /\ pc' = to
    /\ UNCHANGED <<tartVM, runProc, runCtxCancelled, wg, errChan, sup, supErr, stopCmdErr>>
    /\ UNCHANGED <<orchRest, calls, termVars>>

StopJoin(from, to) ==
    /\ pc = from
    /\ wg = 0
    /\ lastErr' = StopResult(stopCmdErr)
    /\ trace' = Append(trace, "stopReturned")
    /\ pc' = to
    /\ UNCHANGED <<tartVM, runProc, runCtxCancelled, wg, errChan, sup, supErr, stopCmdErr>>
    /\ UNCHANGED <<orchRest, calls, termVars>>

DeleteSwallowsError(from, to) ==
    /\ pc = from
    /\ \E ok \in BOOLEAN :
         LET e == Cmd(FALSE, ok /\ tartVM = "stopped", "delete") IN
         /\ lastErr' = Nil
         /\ tartVM' = IF e = Nil THEN "absent" ELSE tartVM
    /\ trace' = Append(trace, "deleteInvoked")
    /\ pc' = to
    /\ UNCHANGED <<runProc, runCtxCancelled, wg, errChan, sup, supErr, stopCmdErr>>
    /\ UNCHANGED <<orchRest, calls, termVars>>

\* VM.Delete: Cmd(context.Background(), "delete", ident). tart delete fails for
\* a VM that does not exist or is still running.
Delete(from, to) ==
    /\ pc = from
    /\ \E ok \in BOOLEAN :
         LET e == Cmd(FALSE, ok /\ tartVM = "stopped", "delete") IN
         /\ lastErr' = e
         /\ tartVM' = IF e = Nil THEN "absent" ELSE tartVM
    /\ trace' = Append(trace, "deleteInvoked")
    /\ pc' = to
    /\ UNCHANGED <<runProc, runCtxCancelled, wg, errChan, sup, supErr, stopCmdErr>>
    /\ UNCHANGED <<orchRest, calls, termVars>>

SupervisorStep == SupSpawn \/ SupWait \/ SupSend \/ SupDone


\* ------------------------------------- orchestrator (runCommand / run)
\* return err: the deferred calls then run, last registered first.
Return(err, step) ==
    /\ ret' = err
    /\ failedStep' = step
    /\ pc' = "unwind"

\* tart.NewVMClonedFrom, then defer vm.Close().
Clone ==
    /\ pc = "clone"
    /\ \E ok \in BOOLEAN :
         LET e == Cmd(ctxCancelled, ok, "clone") IN
         IF e = Nil
         THEN /\ tartVM' = "stopped"
              /\ vmCreated' = TRUE
              /\ defers' = Append(defers, "vmClose")
              /\ pc' = "configure"
              /\ UNCHANGED <<ret, failedStep>>
         ELSE /\ Return(Wrap("failed to clone VM", e), "clone")
              /\ UNCHANGED <<tartVM, vmCreated, defers>>
    /\ UNCHANGED <<ctxCancelled, interrupted, interactive, sshClient, mounted,
                   remoteCmd, exitCode, warnings>>
    /\ UNCHANGED <<runProc, runCtxCancelled, wg, errChan, sup, supErr, stopCmdErr, lastErr>>
    /\ UNCHANGED <<histVars, termVars>>

\* vm.Configure(ctx, cpu, memory): one `tart set` of its three, --random-mac
\* always, --cpu when cpu != 0 and --memory when memory != 0 (given); the
\* caller returns the error as it is.
Configure(at, next, msg, optional) ==
    /\ pc = at
    /\ \E given \in (IF optional THEN BOOLEAN ELSE {TRUE}), ok \in BOOLEAN :
         LET e == Cmd(ctxCancelled, ok, "set") IN
         IF ~given \/ e = Nil
         THEN pc' = next /\ UNCHANGED <<ret, failedStep>>
         ELSE Return(Wrap(msg, e), "configure")
    /\ UNCHANGED <<defers, ctxCancelled, interrupted, interactive, sshClient, mounted,
                   remoteCmd, exitCode, warnings, vmCreated>>
    /\ UNCHANGED <<vmVars, histVars, termVars>>

\* parseDirectoryMounts(extraDirs), when extra directories were given: a
\* specification of the wrong shape, a "~" path with no home directory, or a
\* relative path with no working directory, ends the run.
ParseMounts ==
    /\ pc = "parseMounts"
    /\ \/ pc' = "start" /\ UNCHANGED <<ret, failedStep>>
       \/ \E e \in {Err("invalid --dir format"),
                     Wrap("failed to get home directory", Err("$HOME is not defined")),
                     Wrap("failed to get absolute path", Err("getwd: no such file or directory"))} :
            Return(e, "parseMounts")
    /\ UNCHANGED <<defers, ctxCancelled, interrupted, interactive, sshClient, mounted,
                   remoteCmd, exitCode, warnings, vmCreated>>
    /\ UNCHANGED <<vmVars, histVars, termVars>>

\* vm.Start(ctx, directoryMounts)
OrchStart == Start("start", "retrieveIP")

\* vm.RetrieveIP(ctx): tart ip --wait 30 answers only for a running VM.
RetrieveIP ==
    /\ pc = "retrieveIP"
    /\ \E ok \in BOOLEAN :
         LET e == Cmd(ctxCancelled, ok /\ tartVM = "running", "ip") IN
         IF e = Nil
         THEN pc' = "checkErrChan" /\ UNCHANGED <<ret, failedStep>>
         ELSE Return(Wrap("failed to get VM IP", e), "retrieveIP")
    /\ UNCHANGED <<defers, ctxCancelled, interrupted, interactive, sshClient, mounted,
                   remoteCmd, exitCode, warnings, vmCreated>>
    /\ UNCHANGED <<vmVars, histVars, termVars>>

\* select { case err := <-vm.ErrChan(): ...; default: }
CheckErrChan ==
    /\ pc = "checkErrChan"
    /\ IF Len(errChan) > 0
       THEN /\ errChan' = Tail(errChan)
            /\ IF Head(errChan) # Nil
               THEN Return(Wrap("VM failed to start", Head(errChan)), "checkErrChan")
               ELSE pc' = "connect" /\ UNCHANGED <<ret, failedStep>>
       ELSE /\ pc' = "connect"
            /\ UNCHANGED <<errChan, ret, failedStep>>
    /\ UNCHANGED <<defers, ctxCancelled, interrupted, interactive, sshClient, mounted,
                   remoteCmd, exitCode, warnings, vmCreated>>
    /\ UNCHANGED <<tartVM, runProc, runCtxCancelled, wg, sup, supErr, stopCmdErr, lastErr>>
    /\ UNCHANGED <<histVars, termVars>>

\* ssh.WaitForSSH succeeds: an attempt reached the VM; defer sshClient.Close().
ConnectNoDefer ==
    /\ pc = "connect"
    /\ ~ctxCancelled
    /\ tartVM = "running"
    /\ sshClient' = "open"
    /\ pc' = "mount"
    /\ UNCHANGED <<defers, ctxCancelled, interrupted, interactive, mounted, remoteCmd,
                   exitCode, ret, warnings, failedStep, vmCreated>>
    /\ UNCHANGED <<vmVars, histVars, termVars>>

Connect ==
    /\ pc = "connect"
    /\ ~ctxCancelled
    /\ tartVM = "running"
    /\ sshClient' = "open"
    /\ defers' = Append(defers, "sshClose")
    /\ pc' = "mount"
    /\ UNCHANGED <<ctxCancelled, interrupted, interactive, mounted, remoteCmd,
                   exitCode, ret, warnings, failedStep, vmCreated>>
    /\ UNCHANGED <<vmVars, histVars, termVars>>

\* ssh.WaitForSSH gives up: only the outer context ends the retries.
ConnectCancelled ==
    /\ pc = "connect"
    /\ ctxCancelled
    /\ Return(Wrap("failed to connect via SSH",
                   Wrap("failed to connect via SSH", CtxCanceled)), "connect")
    /\ UNCHANGED <<defers, ctxCancelled, interrupted, interactive, sshClient, mounted,
                   remoteCmd, exitCode, warnings, vmCreated>>
    /\ UNCHANGED <<vmVars, histVars, termVars>>

\* exec.MountWorkingDirectory(ctx), then defer exec.UnmountWorkingDirectory(ctx).
\* NewSession can fail; session.Run does not look at ctx and fails with the
\* non-zero exit status of the mount command, which only a running guest
\* reports, or with no exit status when the connection is lost.
Mount ==
    /\ pc = "mount"
    /\ \/ /\ tartVM = "running"
          /\ mounted' = TRUE
          /\ defers' = Append(defers, "unmount")
          /\ pc' = "exec"
          /\ UNCHANGED <<ret, failedStep>>
       \/ /\ \E e \in {Wrap("failed to create SSH session", SSHError),
                        Wrap("failed to mount working directory", ExitMissingError)}
                       \cup {Wrap("failed to mount working directory", ExitError(c)) :
                                c \in IF tartVM = "running" THEN ExitCodes \ {0} ELSE {}} :
               Return(e, "mount")
          /\ UNCHANGED <<mounted, defers>>
    /\ UNCHANGED <<ctxCancelled, interrupted, interactive, sshClient,
                   remoteCmd, exitCode, warnings, vmCreated>>
    /\ UNCHANGED <<vmVars, histVars, termVars>>


\* ---------------------------------------------- results of a session
IsExitError(e) == e.msgs = <<"ssh.ExitError">>

\* RunInteractiveCommand after session.Wait: "command failed: %w".
RunInteractiveResultOpaque(e) == IF e # Nil THEN Err("command failed") ELSE Nil
RunInteractiveResult(e) == IF e # Nil THEN Wrap("command failed", e) ELSE Nil

\* runNonInteractive: return session.Run(command)
RunNonInteractiveResult(e) == e

\* Executor.Execute after session.Wait: an *ssh.ExitError becomes "command
\* exited with status %d", anything else "failed to run command: %w".
ExecuteResult(e) ==
    IF e = Nil THEN Nil
    ELSE IF IsExitError(e)
         THEN [msgs |-> <<"command exited with status">>, code |-> e.code]
         ELSE Wrap("failed to run command", e)

InteractiveSetupMsgs ==
    {"failed to create session", "failed to make terminal raw",
     "failed to get terminal size", "failed to request pty",
     "failed to get stdin pipe", "failed to get stdout pipe",
     "failed to get stderr pipe", "failed to start command"}

ExecuteSetupMsgs ==
    {"failed to create SSH session", "failed to create stdout pipe",
     "failed to create stderr pipe", "failed to create stdin pipe",
     "failed to start shell", "failed to change directory",
     "failed to execute command"}

\* The errors of a setup failure on the path taken: each message around the
\* transport's error. runNonInteractive has only the session creation before
\* session.Run, whose error, when the command could not be started, is
\* returned as it is.
SetupErrors(inter, tty) ==
    IF inter
    THEN IF tty
         THEN {Wrap(m, SSHError) : m \in InteractiveSetupMsgs}
         ELSE {Wrap("failed to create session", SSHError), SSHError}
    ELSE {Wrap(m, SSHError) : m \in ExecuteSetupMsgs}

SessionResult(inter, tty, e) ==
    IF inter
    THEN IF tty THEN RunInteractiveResult(e) ELSE RunNonInteractiveResult(e)
    ELSE ExecuteResult(e)

\* exec.ExecuteInteractive / exec.Execute up to the start of the remote
\* command: a setup failure returns at once. On a terminal the proxy has then
\* started its three copy goroutines (wg.Add(3)).
ExecSetup ==
    /\ pc = "exec"
    /\ \/ /\ tartVM = "running"
          /\ remoteCmd' = "running"
          /\ pc' = "sessionWait"
          /\ IF interactive /\ isTTY
             THEN copyIn' = "read" /\ copyOut' = "copy" /\ copyErr' = "copy"
             ELSE UNCHANGED <<copyIn, copyOut, copyErr>>
          /\ UNCHANGED <<ret, failedStep>>
       \/ /\ \E e \in SetupErrors(interactive, isTTY) : Return(e, "execSetup")
          /\ UNCHANGED <<remoteCmd, copyIn, copyOut, copyErr>>
    /\ UNCHANGED <<defers, ctxCancelled, interrupted, interactive, sshClient, mounted,
                   exitCode, warnings, vmCreated>>
    /\ UNCHANGED <<vmVars, histVars, mainT, rawT, sessT, watchT, sizeT, inputs, isTTY,
                   sshVars, pureVars>>

\* session.Wait() returns only when the remote command has ended or the
\* transport has failed; it does not look at ctx. On a terminal the proxy
\* goes on to wg.Wait(), otherwise the result is returned.
SessionWait ==
    /\ pc = "sessionWait"
    /\ remoteCmd \in {"exited", "dropped"}
    /\ IF interactive /\ isTTY
       THEN pc' = "sessionJoin" /\ UNCHANGED <<ret, failedStep>>
       ELSE LET r == SessionResult(interactive, isTTY, WaitErr(remoteCmd, exitCode)) IN
            Return(r, IF r = Nil THEN "none" ELSE "exec")
    /\ UNCHANGED <<defers, ctxCancelled, interrupted, interactive, sshClient, mounted,
                   remoteCmd, exitCode, warnings, vmCreated>>
    /\ UNCHANGED <<vmVars, histVars, termVars>>

\* RunInteractiveCommand after session.Wait(): wg.Wait() returns once the
\* three copy goroutines have ended, and then the result of the wait.
SessionJoin ==
    /\ pc = "sessionJoin"
    /\ copyIn = "done" /\ copyOut = "done" /\ copyErr = "done"
    /\ LET r == SessionResult(interactive, isTTY, WaitErr(remoteCmd, exitCode)) IN
       Return(r, IF r = Nil THEN "none" ELSE "exec")
    /\ UNCHANGED <<defers, ctxCancelled, interrupted, interactive, sshClient, mounted,
                   remoteCmd, exitCode, warnings, vmCreated>>
    /\ UNCHANGED <<vmVars, histVars, termVars>>

\* The remote command ends with an exit status.
RemoteExit ==
    /\ remoteCmd = "running"
    /\ \E c \in ExitCodes : exitCode' = c
    /\ remoteCmd' = "exited"
    /\ UNCHANGED <<pc, defers, ctxCancelled, interrupted, interactive, sshClient, mounted,
                   ret, warnings, failedStep, vmCreated>>
    /\ UNCHANGED <<vmVars, histVars, termVars>>

\* The connection is lost while the command runs.
TransportDrop ==
    /\ remoteCmd = "running"
    /\ remoteCmd' = "dropped"
    /\ UNCHANGED <<pc, defers, ctxCancelled, interrupted, interactive, sshClient, mounted,
                   exitCode, ret, warnings, failedStep, vmCreated>>
    /\ UNCHANGED <<vmVars, histVars, termVars>>

\* A run context derived from the orchestrator's: cancel() ends the run process.
InterruptKillsRun ==
    /\ pc # "done"
    /\ ~interrupted
    /\ interrupted' = TRUE
    /\ ctxCancelled' = TRUE
    /\ runCtxCancelled' = TRUE
    /\ IF runProc = "running"
       THEN runProc' = "killed" /\ tartVM' = "stopped"
       ELSE UNCHANGED <<runProc, tartVM>>
    /\ UNCHANGED <<pc, defers, interactive, sshClient, mounted, remoteCmd, exitCode,
                   ret, warnings, failedStep, vmCreated>>
    /\ UNCHANGED <<wg, errChan, sup, supErr, stopCmdErr, lastErr>>
    /\ UNCHANGED <<histVars, termVars>>

\* SIGINT / SIGTERM: the handler goroutine calls cancel().
Interrupt ==
    /\ pc # "done"
    /\ ~interrupted
    /\ interrupted' = TRUE
    /\ ctxCancelled' = TRUE
    /\ UNCHANGED <<pc, defers, interactive, sshClient, mounted, remoteCmd, exitCode,
                   ret, warnings, failedStep, vmCreated>>
    /\ UNCHANGED <<vmVars, histVars, termVars>>

\* ------------------------------------------------ the deferred calls
\* defer exec.UnmountWorkingDirectory(ctx): errors ignored.
DeferredUnmount ==
    /\ pc = "unwind"
    /\ defers # <<>> /\ Last(defers) = "unmount"
    /\ defers' = Front(defers)
    /\ mounted' = FALSE
    /\ trace' = Append(trace, "unmount")
    /\ UNCHANGED <<pc, ctxCancelled, interrupted, interactive, sshClient, remoteCmd,
                   exitCode, ret, warnings, failedStep, vmCreated>>
    /\ UNCHANGED <<vmVars, calls, termVars>>

\* defer sshClient.Close()
DeferredSSHClose ==
    /\ pc = "unwind"
    /\ defers # <<>> /\ Last(defers) = "sshClose"
    /\ defers' = Front(defers)
    /\ sshClient' = "closed"
    /\ trace' = Append(trace, "sshClose")
    /\ UNCHANGED <<pc, ctxCancelled, interrupted, interactive, mounted, remoteCmd,
                   exitCode, ret, warnings, failedStep, vmCreated>>
    /\ UNCHANGED <<vmVars, calls, termVars>>

\* defer func() { if err := vm.Close(); err != nil { warning } }()
DeferredVMClose ==
    /\ pc = "unwind"
    /\ defers # <<>> /\ Last(defers) = "vmClose"
    /\ defers' = Front(defers)
    /\ pc' = "stopGraceful"
    /\ UNCHANGED <<ctxCancelled, interrupted, interactive, sshClient, mounted, remoteCmd,
                   exitCode, ret, warnings, failedStep, vmCreated>>
    /\ UNCHANGED <<vmVars, histVars, termVars>>

\* VM.Close: if err := vm.Stop(); err != nil { return err }
CloseCheck ==
    /\ pc = "closeCheck"
    /\ pc' = IF lastErr # Nil THEN "closeDone" ELSE "delete"
    /\ UNCHANGED <<orchRest, vmVars, histVars, termVars>>

\* VM.Close: return vm.Delete()
CloseDelete == Delete("delete", "closeDone")

\* What runCommand returns once the deferred vm.Close() has run: the deferred
\* closure only prints a warning, the result is not a named one.
OrchestratorResultOverwritten(primary, cleanupErr) ==
    IF cleanupErr # Nil THEN cleanupErr ELSE primary
OrchestratorResult(primary, cleanupErr) == primary

CloseDone ==
    /\ pc = "closeDone"
    /\ warnings' = IF lastErr # Nil THEN Append(warnings, lastErr) ELSE warnings
    /\ ret' = OrchestratorResult(ret, lastErr)
    /\ pc' = "unwind"
    /\ UNCHANGED <<defers, ctxCancelled, interrupted, interactive, sshClient, mounted,
                   remoteCmd, exitCode, failedStep, vmCreated>>
    /\ UNCHANGED <<vmVars, histVars, termVars>>

\* defer cancel()
DeferredCancel ==
    /\ pc = "unwind"
    /\ defers # <<>> /\ Last(defers) = "cancel"
    /\ defers' = Front(defers)
    /\ ctxCancelled' = TRUE
    /\ UNCHANGED <<pc, interrupted, interactive, sshClient, mounted, remoteCmd,
                   exitCode, ret, warnings, failedStep, vmCreated>>
    /\ UNCHANGED <<vmVars, histVars, termVars>>

\* Every deferred call has run: runCommand has returned.
Returned ==
    /\ pc = "unwind"
    /\ defers = <<>>
    /\ pc' = "done"
    /\ UNCHANGED <<orchRest, vmVars, histVars, termVars>>

\* ------------------------- the copy goroutines of the terminal proxy
\* The remote side has closed its ends of the pipes.
RemoteClosed == remoteCmd \in {"exited", "dropped"} \/ sessionClosed

\* io.Copy(os.Stdout, stdout) and io.Copy(os.Stderr, stderr) end at EOF.
CopyOutEnd ==
    /\ copyOut = "copy"
    /\ RemoteClosed
    /\ copyOut' = "done"
    /\ UNCHANGED <<copyIn, copyErr, inputs, mainT, rawT, sessT, watchT, sizeT, notTerm>>

CopyErrEnd ==
    /\ copyErr = "copy"
    /\ RemoteClosed
    /\ copyErr' = "done"
    /\ UNCHANGED <<copyIn, copyOut, inputs, mainT, rawT, sessT, watchT, sizeT, notTerm>>

\* io.Copy(stdin, os.Stdin): a read of the local terminal returns bytes ...
LocalInput ==
    /\ copyIn = "read"
    /\ inputs < MaxInput
    /\ inputs' = inputs + 1
    /\ copyIn' = "write"
    /\ UNCHANGED <<copyOut, copyErr, mainT, rawT, sessT, watchT, sizeT, notTerm>>

\* ... or the end of input; then stdin.Close() and wg.Done().
LocalEOF ==
    /\ copyIn = "read"
    /\ copyIn' = "done"
    /\ UNCHANGED <<copyOut, copyErr, inputs, mainT, rawT, sessT, watchT, sizeT, notTerm>>

\* The write to the remote stdin fails once the remote side is closed, which
\* ends the copy; otherwise the copy reads again.
CopyInWrite ==
    /\ copyIn = "write"
    /\ copyIn' = IF RemoteClosed THEN "done" ELSE "read"
    /\ UNCHANGED <<copyOut, copyErr, inputs, mainT, rawT, sessT, watchT, sizeT, notTerm>>

\* The steps that wait for an answer of the guest: the connection attempts
\* and the requests and commands sent over the connection.
GuestStep == Connect \/ ConnectCancelled \/ Mount \/ ExecSetup \/ DeferredUnmount

\* The steps that need no answer of the guest.
LocalStep ==
    \/ Clone
    \/ Configure("configure", "configureCPU", "failed to set random MAC", FALSE)
    \/ Configure("configureCPU", "configureMemory", "failed to set CPU count", TRUE)
    \/ Configure("configureMemory", "parseMounts", "failed to set memory", TRUE)
    \/ ParseMounts \/ OrchStart \/ RetrieveIP \/ CheckErrChan
    \/ SessionWait \/ SessionJoin \/ DeferredSSHClose \/ DeferredVMClose
    \* VM.Close: Stop() is StopWithContext(context.Background()).
    \/ StopGraceful("stopGraceful", "stopCancel", FALSE)
    \/ StopCancel("stopCancel", "stopJoin")
    \/ StopJoin("stopJoin", "closeCheck")
    \/ CloseCheck \/ CloseDelete \/ CloseDone \/ DeferredCancel \/ Returned

OrchestratorStep == LocalStep \/ GuestStep

Next ==
    \/ OrchestratorStep
    \/ SupervisorStep
    \/ CopyOutEnd \/ CopyErrEnd \/ CopyInWrite \/ LocalInput \/ LocalEOF
    \/ VMExit \/ RemoteExit \/ TransportDrop \/ Interrupt

Spec == Init /\ [][Next]_vars

\* The Go scheduler runs every runnable goroutine, and a step that waits for
\* the guest ends once the VM is gone (the connection is then dead); the
\* operator, a guest that runs and the remote command owe nothing.
FairSpec ==
    /\ Spec
    /\ WF_vars(LocalStep)
    /\ WF_vars(GuestStep /\ tartVM # "running")
    /\ WF_vars(CopyOutEnd \/ CopyErrEnd \/ CopyInWrite)
    /\ WF_vars(SupervisorStep)


\* ------------------------------------ the VM handle under any caller
\* A handle as NewVMClonedFrom returns it, driven by a caller that makes up to
\* MaxCalls calls of Stop and Delete, one after the other; Start comes at most
\* once and before them (a handle is not reused).
InitVMCloned ==
    /\ tartVM = "stopped"
    /\ runProc = "none"
    /\ runCtxCancelled = FALSE
    /\ wg = 0
    /\ errChan = <<>>
    /\ sup = "none"
    /\ supErr = Nil
    /\ stopCmdErr = Nil
    /\ lastErr = Nil

InitAPI ==
    /\ pc = "api"
    /\ defers = <<>>
    /\ ctxCancelled = FALSE
    /\ interrupted = FALSE
    /\ interactive = FALSE
    /\ sshClient = "none"
    /\ mounted = FALSE
    /\ remoteCmd = "none"
    /\ exitCode = 0
    /\ ret = Nil
    /\ warnings = <<>>
    /\ failedStep = "none"
    /\ vmCreated = TRUE
    /\ isTTY = FALSE
    /\ InitVMCloned /\ InitHist /\ InitTermIdle
    /\ InitSSHIdle /\ InitPureIdle

APIStart ==
    /\ sup = "none"
    /\ calls = <<>>
    /\ Start("api", "api")

APIStopGraceful ==
    /\ Len(calls) < MaxCalls
    /\ StopGraceful("api", "apiStopCancel", FALSE)

APIStopCancel == StopCancel("apiStopCancel", "apiStopJoin")
APIStopJoin == StopJoin("apiStopJoin", "apiStopRet")

APIDelete ==
    /\ Len(calls) < MaxCalls
    /\ Delete("api", "apiDeleteRet")

\* The call has returned: its name and result are noted.
APIReturn ==
    /\ pc \in {"apiStopRet", "apiDeleteRet"}
    /\ calls' = Append(calls, [op |-> IF pc = "apiStopRet" THEN "Stop" ELSE "Delete",
                               res |-> lastErr])
    /\ pc' = "api"
    /\ UNCHANGED <<orchRest, vmVars, trace, termVars>>

NextVM ==
    \/ APIStart \/ APIStopGraceful \/ APIStopCancel \/ APIStopJoin
    \/ APIDelete \/ APIReturn
    \/ SupervisorStep \/ VMExit

SpecVM == InitAPI /\ [][NextVM]_vars

\* A call of Stop that has begun goes on, and the supervisor goroutine is
\* scheduled; whether and when the caller calls anything is up to the caller.
FairSpecVM ==
    SpecVM /\ WF_vars(APIStopCancel \/ APIStopJoin \/ APIReturn) /\ WF_vars(SupervisorStep)

\* ------------------------- terminal proxy (RunInteractiveCommand)
\* Terminal.RunInteractiveCommand with the goroutines it starts: the resize
\* watcher and the three copies. ctxCancelled is the caller's context.
InitTerm ==
    /\ pc = "term"
    /\ defers = <<>>
    /\ ctxCancelled = FALSE
    /\ interrupted = FALSE
    /\ interactive = TRUE
    /\ sshClient = "open"
    /\ mounted = TRUE
    /\ remoteCmd = "none"
    /\ exitCode = 0
    /\ ret = Nil
    /\ warnings = <<>>
    /\ failedStep = "none"
    /\ vmCreated = TRUE
    /\ InitVM /\ InitHist /\ InitTermIdle
    /\ InitSSHIdle /\ InitPureIdle
    /\ isTTY \in BOOLEAN

\* return err from RunInteractiveCommand: its deferred calls then run.
TReturn(e) ==
    /\ tret' = e
    /\ tpc' = "unwind"

\* session, err := t.client.NewSession(); defer session.Close()
NewSession ==
    /\ tpc = "idle"
    /\ pc = "term"
    /\ \E ok \in BOOLEAN :
         IF ok
         THEN /\ tdefers' = Append(tdefers, "sessionClose")
              /\ tpc' = "isTerminal"
              /\ UNCHANGED tret
         ELSE /\ TReturn(Wrap("failed to create session", SSHError))
              /\ UNCHANGED tdefers
    /\ UNCHANGED <<waitResult, waitDone, panicking, rawT, sessT, watchT, sizeT, copyT, notTerm>>

\* The terminal check left out: the interactive path whatever stdin is.
IsTerminalIgnored ==
    /\ tpc = "isTerminal"
    /\ tpc' = "makeRaw"
    /\ UNCHANGED <<tdefers, tret, waitResult, waitDone, panicking, rawT, sessT, watchT,
                   sizeT, copyT, notTerm>>

\* if !term.IsTerminal(fd) { return t.runNonInteractive(session, command) }
IsTerminal ==
    /\ tpc = "isTerminal"
    /\ tpc' = IF isTTY THEN "makeRaw" ELSE "runNonInteractive"
    /\ UNCHANGED <<tdefers, tret, waitResult, waitDone, panicking, rawT, sessT, watchT,
                   sizeT, copyT, notTerm>>

\* runNonInteractive: session.Run(command) starts the command ...
RunNonInteractive ==
    /\ tpc = "runNonInteractive"
    /\ \E ok \in BOOLEAN :
         IF ok
         THEN /\ remoteCmd' = "running"
              /\ established' = Append(established, "run")
              /\ tpc' = "runWait"
              /\ UNCHANGED tret
         ELSE /\ TReturn(SSHError)
              /\ UNCHANGED <<remoteCmd, established>>
    /\ UNCHANGED <<tdefers, waitResult, waitDone, panicking, rawT, scopeCancelled,
                   sessionClosed, watchT, sizeT, copyT, notTermNoCmd>>

\* ... and waits for it; its error is returned as it is.
RunNonInteractiveWait ==
    /\ tpc = "runWait"
    /\ remoteCmd \in {"exited", "dropped"}
    /\ waitResult' = WaitErr(remoteCmd, exitCode)
    /\ waitDone' = TRUE
    /\ TReturn(RunNonInteractiveResult(WaitErr(remoteCmd, exitCode)))
    /\ UNCHANGED <<tdefers, panicking, rawT, sessT, watchT, sizeT, copyT, notTerm>>

\* oldState, err := term.MakeRaw(fd); defer restore(); defer func() { recover }()
MakeRaw ==
    /\ tpc = "makeRaw"
    /\ \E ok \in BOOLEAN :
         IF ok
         THEN /\ rawMode' = TRUE
              /\ rawEntered' = TRUE
              /\ tdefers' = tdefers \o <<"restore", "recover">>
              /\ tpc' = "getSize"
              /\ UNCHANGED tret
         ELSE /\ TReturn(Wrap("failed to make terminal raw", SSHError))
              /\ UNCHANGED <<rawMode, rawEntered, tdefers>>
    /\ UNCHANGED <<restored, restoreCount, waitResult, waitDone, panicking, sessT, watchT,
                   sizeT, copyT, notTerm>>

\* restore := func() { if !restored { term.Restore(fd, oldState); restored = true } }
RestoreUnguarded ==
    /\ restoreCount' = restoreCount + 1
    /\ rawMode' = FALSE
    /\ restored' = TRUE
    /\ UNCHANGED rawEntered

Restore ==
    IF ~restored
    THEN /\ restoreCount' = restoreCount + 1
         /\ rawMode' = FALSE
         /\ restored' = TRUE
         /\ UNCHANGED rawEntered
    ELSE UNCHANGED rawT

\* width, height, err := term.GetSize(fd)
GetSize ==
    /\ tpc = "getSize"
    /\ \E ok \in BOOLEAN :
         IF ok
         THEN /\ capSize' = localSize
              /\ tpc' = "requestPty"
              /\ UNCHANGED tret
         ELSE /\ TReturn(Wrap("failed to get terminal size", SSHError))
              /\ UNCHANGED capSize
    /\ UNCHANGED <<tdefers, waitResult, waitDone, panicking, rawT, sessT, watchT, localSize,
                   remoteSize, resizes, copyT, notTerm>>

\* session.RequestPty("xterm-256color", height, width, modes)
RequestPty ==
    /\ tpc = "requestPty"
    /\ \E ok \in BOOLEAN :
         IF ok
         THEN /\ remoteSize' = capSize
              /\ established' = Append(established, "requestPty")
              /\ tpc' = "stdinPipe"
              /\ UNCHANGED tret
         ELSE /\ TReturn(Wrap("failed to request pty", SSHError))
              /\ UNCHANGED <<remoteSize, established>>
    /\ UNCHANGED <<tdefers, waitResult, waitDone, panicking, rawT, scopeCancelled,
                   sessionClosed, watchT, localSize, capSize, resizes, copyT, notTerm>>

\* A pipe whose error is dropped: the proxy goes on without it.
PipeIgnoresError(at, next, msg) ==
    /\ tpc = at
    /\ \E ok \in BOOLEAN :
         /\ established' = IF ok THEN Append(established, at) ELSE established
         /\ tpc' = next
         /\ UNCHANGED tret
    /\ UNCHANGED <<tdefers, waitResult, waitDone, panicking, rawT, scopeCancelled,
                   sessionClosed, watchT, sizeT, copyT, notTerm>>

\* session.StdinPipe(), StdoutPipe(), StderrPipe(), one after the other.
Pipe(at, next, msg) ==
    /\ tpc = at
    /\ \E ok \in BOOLEAN :
         IF ok
         THEN /\ established' = Append(established, at)
              /\ tpc' = next
              /\ UNCHANGED tret
         ELSE /\ TReturn(Wrap(msg, SSHError))
              /\ UNCHANGED established
    /\ UNCHANGED <<tdefers, waitResult, waitDone, panicking, rawT, scopeCancelled,
                   sessionClosed, watchT, sizeT, copyT, notTerm>>

StdinPipe == Pipe("stdinPipe", "stdoutPipe", "failed to get stdin pipe")
StdoutPipe == Pipe("stdoutPipe", "stderrPipe", "failed to get stdout pipe")
StderrPipe == Pipe("stderrPipe", "goWatcher", "failed to get stderr pipe")

\* The copy tasks spawned together with the watcher, before session.Start.
GoWatcherAndCopies ==
    /\ tpc = "goWatcher"
    /\ tdefers' = Append(tdefers, "cancel")
    /\ wpc' = "notify"
    /\ copyIn' = "read"
    /\ copyOut' = "copy"
    /\ copyErr' = "copy"
    /\ tpc' = "start"
    /\ UNCHANGED <<tret, waitResult, waitDone, panicking, rawT, sessT, sigBuf, notified,
                   readSize, lateResizes, sizeT, inputs, notTerm>>

\* ctx, cancel := context.WithCancel(ctx); defer cancel();
\* go t.handleWindowResize(ctx, session, fd)
GoWatcher ==
    /\ tpc = "goWatcher"
    /\ tdefers' = Append(tdefers, "cancel")
    /\ wpc' = "notify"
    /\ tpc' = "start"
    /\ UNCHANGED <<tret, waitResult, waitDone, panicking, rawT, sessT, sigBuf, notified,
                   readSize, lateResizes, sizeT, copyT, notTerm>>

\* session.Start(command)
StartCommand ==
    /\ tpc = "start"
    /\ \E ok \in BOOLEAN :
         IF ok
         THEN /\ remoteCmd' = "running"
              /\ established' = Append(established, "start")
              /\ tpc' = "goCopy"
              /\ UNCHANGED tret
         ELSE /\ TReturn(Wrap("failed to start command", SSHError))
              /\ UNCHANGED <<remoteCmd, established>>
    /\ UNCHANGED <<tdefers, waitResult, waitDone, panicking, rawT, scopeCancelled,
                   sessionClosed, watchT, sizeT, copyT, notTermNoCmd>>

\* wg.Add(3) and the three copy goroutines.
GoCopy ==
    /\ tpc = "goCopy"
    /\ copyIn' = "read"
    /\ copyOut' = "copy"
    /\ copyErr' = "copy"
    /\ tpc' = "wait"
    /\ UNCHANGED <<tdefers, tret, waitResult, waitDone, panicking, rawT, sessT, watchT,
                   sizeT, inputs, notTerm>>

\* ctx.Done() of the scope made by context.WithCancel(ctx): closed by its own
\* cancel() and by the cancellation of the caller's context it derives from.
ScopeDone == wpc # "none" /\ (scopeCancelled \/ ctxCancelled)

\* A wait that does not block: the proxy goes on while the command runs.
WaitNotBlocking ==
    /\ tpc = "wait"
    /\ waitResult' = Nil
    /\ waitDone' = TRUE
    /\ tpc' = "cancel"
    /\ UNCHANGED <<tdefers, tret, panicking, rawT, sessT, watchT, sizeT, copyT, notTerm>>

\* err = session.Wait()
Wait ==
    /\ tpc = "wait"
    /\ remoteCmd \in {"exited", "dropped"}
    /\ waitResult' = WaitErr(remoteCmd, exitCode)
    /\ waitDone' = TRUE
    /\ tpc' = "cancel"
    /\ UNCHANGED <<tdefers, tret, panicking, rawT, sessT, watchT, sizeT, copyT, notTerm>>

\* cancel() // Stop resize handler
Cancel ==
    /\ tpc = "cancel"
    /\ scopeCancelled' = TRUE
    /\ tpc' = "wgWait"
    /\ UNCHANGED <<tdefers, tret, waitResult, waitDone, panicking, rawT, sessionClosed,
                   established, watchT, sizeT, copyT, notTerm>>

\* A join that counts the two output copies only.
WgWaitOutputsOnly ==
    /\ tpc = "wgWait"
    /\ copyOut = "done" /\ copyErr = "done"
    /\ tpc' = "restore"
    /\ UNCHANGED <<tdefers, tret, waitResult, waitDone, panicking, rawT, sessT, watchT,
                   sizeT, copyT, notTerm>>

\* wg.Wait(): the three copy goroutines, and only they, are in wg.
WgWait ==
    /\ tpc = "wgWait"
    /\ copyIn = "done" /\ copyOut = "done" /\ copyErr = "done"
    /\ tpc' = "restore"
    /\ UNCHANGED <<tdefers, tret, waitResult, waitDone, panicking, rawT, sessT, watchT,
                   sizeT, copyT, notTerm>>

\* restore()
RestoreCall ==
    /\ tpc = "restore"
    /\ Restore
    /\ tpc' = "result"
    /\ UNCHANGED <<tdefers, tret, waitResult, waitDone, panicking, sessT, watchT, sizeT,
                   copyT, notTerm>>

\* if err != nil { return fmt.Errorf("command failed: %w", err) }; return nil
Result ==
    /\ tpc = "result"
    /\ TReturn(RunInteractiveResult(waitResult))
    /\ UNCHANGED <<tdefers, waitResult, waitDone, panicking, rawT, sessT, watchT, sizeT,
                   copyT, notTerm>>

\* A fault unwinds RunInteractiveCommand from a statement after MakeRaw.
Panic ==
    /\ tpc \in {"getSize", "requestPty", "stdinPipe", "stdoutPipe", "stderrPipe",
                "goWatcher", "start", "goCopy", "wait", "cancel", "wgWait",
                "restore", "result"}
    /\ ~panicking
    /\ panicking' = TRUE
    /\ tpc' = "unwind"
    /\ UNCHANGED <<tdefers, tret, waitResult, waitDone, rawT, sessT, watchT, sizeT, copyT, notTerm>>

\* The deferred calls, last registered first.
\* defer cancel()
TDeferredCancel ==
    /\ tpc = "unwind"
    /\ tdefers # <<>> /\ Last(tdefers) = "cancel"
    /\ tdefers' = Front(tdefers)
    /\ scopeCancelled' = TRUE
    /\ UNCHANGED <<tpc, tret, waitResult, waitDone, panicking, rawT, sessionClosed,
                   established, watchT, sizeT, copyT, notTerm>>

\* A recover that restores and does not raise the fault again.
TDeferredRecoverSwallows ==
    /\ tpc = "unwind"
    /\ tdefers # <<>> /\ Last(tdefers) = "recover"
    /\ tdefers' = Front(tdefers)
    /\ IF panicking THEN Restore ELSE UNCHANGED rawT
    /\ panicking' = FALSE
    /\ UNCHANGED <<tpc, tret, waitResult, waitDone, sessT, watchT, sizeT, copyT, notTerm>>

\* defer func() { if r := recover(); r != nil { restore(); panic(r) } }()
TDeferredRecover ==
    /\ tpc = "unwind"
    /\ tdefers # <<>> /\ Last(tdefers) = "recover"
    /\ tdefers' = Front(tdefers)
    /\ IF panicking THEN Restore ELSE UNCHANGED rawT
    /\ UNCHANGED <<tpc, tret, waitResult, waitDone, panicking, sessT, watchT, sizeT, copyT, notTerm>>

\* defer restore()
TDeferredRestore ==
    /\ tpc = "unwind"
    /\ tdefers # <<>> /\ Last(tdefers) = "restore"
    /\ tdefers' = Front(tdefers)
    /\ Restore
    /\ UNCHANGED <<tpc, tret, waitResult, waitDone, panicking, sessT, watchT, sizeT, copyT, notTerm>>

\* defer session.Close(): a command still running loses its channel.
TDeferredSessionClose ==
    /\ tpc = "unwind"
    /\ tdefers # <<>> /\ Last(tdefers) = "sessionClose"
    /\ tdefers' = Front(tdefers)
    /\ sessionClosed' = TRUE
    /\ remoteCmd' = IF remoteCmd = "running" THEN "dropped" ELSE remoteCmd
    /\ UNCHANGED <<tpc, tret, waitResult, waitDone, panicking, rawT, scopeCancelled,
                   established, watchT, sizeT, copyT, notTermNoCmd>>

\* RunInteractiveCommand has returned, or the fault goes on outward.
TReturned ==
    /\ tpc = "unwind"
    /\ tdefers = <<>>
    /\ tpc' = IF panicking THEN "panicked" ELSE "returned"
    /\ UNCHANGED <<tdefers, tret, waitResult, waitDone, panicking, rawT, sessT, watchT,
                   sizeT, copyT, notTerm>>

\* handleWindowResize: ch := make(chan os.Signal, 1); signal.Notify(ch, SIGWINCH)
WatcherNotify ==
    /\ wpc = "notify"
    /\ notified' = TRUE
    /\ wpc' = "select"
    /\ UNCHANGED <<sigBuf, readSize, lateResizes, mainT, rawT, sessT, sizeT,
                   copyT, notTerm>>

\* select, case <-ctx.Done(): return (and the deferred signal.Stop(ch))
WatcherDone ==
    /\ wpc = "select"
    /\ scopeCancelled \/ ctxCancelled
    /\ notified' = FALSE
    /\ wpc' = "done"
    /\ UNCHANGED <<sigBuf, readSize, lateResizes, mainT, rawT, sessT, sizeT,
                   copyT, notTerm>>

\* select, case <-ch: Go picks any ready case.
WatcherSignal ==
    /\ wpc = "select"
    /\ sigBuf = 1
    /\ sigBuf' = 0
    /\ wpc' = "getSize"
    /\ UNCHANGED <<notified, readSize, lateResizes, mainT, rawT, sessT, sizeT,
                   copyT, notTerm>>

\* width, height, _ := term.GetSize(fd): the error is dropped, and a failed
\* call leaves the zero values.
WatcherGetSize ==
    /\ wpc = "getSize"
    /\ \E ok \in BOOLEAN : readSize' = IF ok THEN localSize ELSE 0
    /\ wpc' = "windowChange"
    /\ UNCHANGED <<sigBuf, notified, lateResizes, mainT, rawT, sessT, sizeT,
                   copyT, notTerm>>

\* _ = session.WindowChange(height, width): the request reaches the remote
\* side only while the session's channel is open, which it is from the PTY
\* request on, before the command is started too. lateResizes counts the calls
\* made after session.Wait has returned and cancel() has been called.
WatcherWindowChange ==
    /\ wpc = "windowChange"
    /\ remoteSize' = IF remoteCmd \in {"none", "running"} /\ ~sessionClosed
                      THEN readSize ELSE remoteSize
    /\ lateResizes' = lateResizes + (IF waitDone /\ scopeCancelled THEN 1 ELSE 0)
    /\ wpc' = "select"
    /\ UNCHANGED <<sigBuf, notified, readSize, localSize, capSize, resizes, mainT,
                   rawT, sessT, copyT, notTerm>>

\* SIGWINCH: the window has a new size; a registered channel with a free slot
\* gets the signal, a full one drops it.
WindowChanged ==
    /\ tpc \notin {"idle", "returned", "panicked"}
    /\ resizes < MaxResizes
    /\ resizes' = resizes + 1
    /\ localSize' = localSize + 1
    /\ sigBuf' = IF notified THEN 1 ELSE sigBuf
    /\ UNCHANGED <<wpc, notified, readSize, lateResizes, capSize, remoteSize,
                   mainT, rawT, sessT, copyT, notTerm>>

\* The steps that wait for a reply of the remote side: the channel-open
\* request and the pty and exec requests.
TerminalRequestStep == NewSession \/ RequestPty \/ StartCommand \/ RunNonInteractive

\* The steps that need no reply of the remote side.
TerminalLocalStep ==
    \/ IsTerminal \/ RunNonInteractiveWait
    \/ MakeRaw \/ GetSize \/ StdinPipe \/ StdoutPipe \/ StderrPipe
    \/ GoWatcher \/ GoCopy \/ Wait \/ Cancel \/ WgWait
    \/ RestoreCall \/ Result \/ TDeferredCancel \/ TDeferredRecover
    \/ TDeferredRestore \/ TDeferredSessionClose \/ TReturned

TerminalStep == TerminalLocalStep \/ TerminalRequestStep

WatcherStep ==
    WatcherNotify \/ WatcherDone \/ WatcherSignal \/ WatcherGetSize \/ WatcherWindowChange

CopyStep == CopyOutEnd \/ CopyErrEnd \/ CopyInWrite

NextTerm ==
    \/ TerminalStep \/ WatcherStep \/ CopyStep
    \/ Panic \/ WindowChanged \/ LocalInput \/ LocalEOF
    \/ RemoteExit \/ TransportDrop \/ Interrupt

SpecTerm == InitTerm /\ [][NextTerm]_vars

\* The proxy's goroutines are scheduled whenever they can take a step; what the
\* operator types, resizes or interrupts, and what the remote side does, the
\* reply to a request included, is not.
FairSpecTerm ==
    SpecTerm /\ WF_vars(TerminalLocalStep) /\ WF_vars(WatcherStep) /\ WF_vars(CopyStep)

\* ------------------------------------ connection waiter (WaitForSSH)
\* retry.Do around one attempt (a TCP dial bounded by one second, then the SSH
\* handshake), with retry.Context(ctx), retry.Attempts(0) and a fixed delay of
\* one second. peer is the guest: down, listening (TCP answers, sshd does not
\* yet) or up. ctxCancelled is the caller's context.
Peers == {"down", "listening", "up"}

notSSH == <<orchVars, vmVars, histVars, mainT, rawT, sessT, watchT, sizeT, copyT,
            isTTY, pureVars>>

InitSSH ==
    /\ pc = "ssh"
    /\ defers = <<>>
    /\ ctxCancelled = FALSE
    /\ interrupted = FALSE
    /\ interactive = FALSE
    /\ sshClient = "none"
    /\ mounted = FALSE
    /\ remoteCmd = "none"
    /\ exitCode = 0
    /\ ret = Nil
    /\ warnings = <<>>
    /\ failedStep = "none"
    /\ vmCreated = TRUE
    /\ isTTY = FALSE
    /\ InitVM /\ InitHist /\ InitTermIdle /\ InitPureIdle
    /\ spc = "check"
    /\ attempts = 0
    /\ attemptLog = <<>>
    /\ sret = Nil
    /\ peer \in Peers

\* if err := retry.Do(...); err != nil { return nil, fmt.Errorf("failed to
\* connect via SSH: %w", err) }
WaitForSSHResult(e) == IF e # Nil THEN Wrap("failed to connect via SSH", e) ELSE Nil

\* retry.Do begins: a context that is already done ends it before any attempt.
RetryDo ==
    /\ spc = "check"
    /\ IF ctxCancelled
       THEN /\ sret' = WaitForSSHResult(CtxCanceled)
            /\ spc' = "returned"
            /\ UNCHANGED attempts
       ELSE /\ attempts' = 1
            /\ spc' = "dial"
            /\ UNCHANGED sret
    /\ UNCHANGED <<attemptLog, peer, notSSH>>

DialFailsGivesUp ==
    /\ spc = "dial"
    /\ attemptLog' = Append(attemptLog, "dialFailed")
    /\ sret' = WaitForSSHResult(Err("dial tcp: failed"))
    /\ spc' = "returned"
    /\ UNCHANGED <<attempts, peer, notSSH>>

\* dialer.DialContext(boundedCtx, "tcp", addr) fails: refused, timed out after
\* its second, or the caller's context is done. The attempt returns the error.
DialFails ==
    /\ spc = "dial"
    /\ attemptLog' = Append(attemptLog, "dialFailed")
    /\ spc' = "delay"
    /\ UNCHANGED <<attempts, sret, peer, notSSH>>

DialSucceedsReturns ==
    /\ spc = "dial"
    /\ peer # "down"
    /\ ~ctxCancelled
    /\ attemptLog' = Append(attemptLog, "dialOnly")
    /\ spc' = "connected"
    /\ UNCHANGED <<attempts, sret, peer, notSSH>>

\* DialContext succeeds: the guest accepts the TCP connection.
DialSucceeds ==
    /\ spc = "dial"
    /\ peer # "down"
    /\ ~ctxCancelled
    /\ spc' = "handshake"
    /\ UNCHANGED <<attempts, attemptLog, sret, peer, notSSH>>

\* ssh.NewClientConn(netConn, addr, sshConfig) fails: the guest closes the
\* connection or refuses the password. NewClientConn has no deadline of its
\* own and does not look at a context: it ends when the guest answers.
HandshakeFails ==
    /\ spc = "handshake"
    /\ attemptLog' = Append(attemptLog, "handshakeFailed")
    /\ spc' = "delay"
    /\ UNCHANGED <<attempts, sret, peer, notSSH>>

\* ssh.NewClientConn succeeds; the attempt returns nil and retry.Do with it.
HandshakeSucceeds ==
    /\ spc = "handshake"
    /\ peer = "up"
    /\ attemptLog' = Append(attemptLog, "ok")
    /\ spc' = "connected"
    /\ UNCHANGED <<attempts, sret, peer, notSSH>>

\* retry.Do after a failed attempt: select on the delay timer and ctx.Done().
\* The timer fires first: the next attempt begins.
DelayElapsed ==
    /\ spc = "delay"
    /\ ~ctxCancelled
    /\ attempts < MaxAttempts
    /\ attempts' = attempts + 1
    /\ spc' = "dial"
    /\ UNCHANGED <<attemptLog, sret, peer, notSSH>>

\* The context is done first: retry.Do returns ctx.Err().
DelayCancelled ==
    /\ spc = "delay"
    /\ ctxCancelled
    /\ sret' = WaitForSSHResult(CtxCanceled)
    /\ spc' = "returned"
    /\ UNCHANGED <<attempts, attemptLog, peer, notSSH>>

\* return ssh.NewClient(sshConn, chans, reqs), nil
SSHReturn ==
    /\ spc = "connected"
    /\ sret' = WaitForSSHResult(Nil)
    /\ spc' = "returned"
    /\ UNCHANGED <<attempts, attemptLog, peer, notSSH>>

\* The guest boots, its sshd comes up, or it goes away.
PeerChange ==
    /\ spc # "returned"
    /\ \E p \in Peers \ {peer} : peer' = p
    /\ UNCHANGED <<spc, attempts, attemptLog, sret, notSSH>>

\* The steps that end by themselves: the dial is bounded, the timer fires.
WaiterStep ==
    \/ RetryDo \/ DialFails \/ DialSucceeds \/ DelayElapsed \/ DelayCancelled
    \/ SSHReturn

NextSSH ==
    \/ WaiterStep
    \/ HandshakeFails \/ HandshakeSucceeds
    \/ PeerChange \/ Interrupt

SpecSSH == InitSSH /\ [][NextSSH]_vars

\* The waiter's goroutine is scheduled; the guest owes no answer.
FairSpecSSH == SpecSSH /\ WF_vars(WaiterStep)

\* ------------------- functions on arguments, output and command line
\* A Go string is the sequence of its characters.
Seqs(S, n) == UNION {[1..k -> S] : k \in 0..n}

\* strings.Split(s, sep) with a separator of one character
RECURSIVE Split(_, _)
Split(s, sep) ==
    IF \A i \in 1..Len(s) : s[i] # sep
    THEN <<s>>
    ELSE LET k == CHOOSE i \in 1..Len(s) :
                      s[i] = sep /\ \A j \in 1..(i - 1) : s[j] # sep
         IN <<SubSeq(s, 1, k - 1)>> \o Split(SubSeq(s, k + 1, Len(s)), sep)

\* strings.Join(elems, sep)
RECURSIVE Join(_, _)
Join(elems, sep) ==
    IF elems = <<>> THEN <<>>
    ELSE IF Len(elems) = 1 THEN elems[1]
    ELSE elems[1] \o sep \o Join(Tail(elems), sep)

\* strings.HasPrefix(s, c) with a prefix of one character
HasPrefix(s, c) == Len(s) > 0 /\ s[1] = c

\* VM.Start, the arguments of tart run. A flag is one piece of text.
NoGraphics == <<"--no-graphics">>
NoClipboard == <<"--no-clipboard">>
NoAudio == <<"--no-audio">>
DirFlag == <<"--dir">>

\* opts and dirArgumentValue for one mount
DirOpts(dm) ==
    (IF dm.Tag # <<>> THEN <<<<"t", "a", "g", "=">> \o dm.Tag>> ELSE <<>>)
        \o (IF dm.ReadOnly THEN <<<<"r", "o">>>> ELSE <<>>)

DirArgumentValueAlwaysColon(dm) ==
    dm.Name \o <<":">> \o dm.Path \o <<":">> \o Join(DirOpts(dm), <<",">>)

DirArgumentValue(dm) ==
    IF Len(DirOpts(dm)) # 0
    THEN dm.Name \o <<":">> \o dm.Path \o <<":">> \o Join(DirOpts(dm), <<",">>)
    ELSE dm.Name \o <<":">> \o dm.Path

RECURSIVE DirArgs(_)
DirArgs(mounts) ==
    IF mounts = <<>> THEN <<>>
    ELSE <<DirFlag, DirArgumentValue(Head(mounts))>> \o DirArgs(Tail(mounts))

\* The identity put before the mounts.
StartArgsIdentFirst(mounts, ident) ==
    <<NoGraphics, NoClipboard, NoAudio>> \o <<ident>> \o DirArgs(mounts)

StartArgs(mounts, ident) ==
    <<NoGraphics, NoClipboard, NoAudio>> \o DirArgs(mounts) \o <<ident>>

\* firstNonEmptyLine(outputs...): the first line that is not "" of the first
\* output that has one, "" when there is none.
RECURSIVE FirstNonEmpty(_)
FirstNonEmpty(lines) ==
    IF lines = <<>> THEN <<>>
    ELSE IF Head(lines) # <<>> THEN Head(lines)
    ELSE FirstNonEmpty(Tail(lines))

RECURSIVE firstNonEmptyLine(_)
firstNonEmptyLine(outputs) ==
    IF outputs = <<>> THEN <<>>
    ELSE LET line == FirstNonEmpty(Split(Head(outputs), "\n")) IN
         IF line # <<>> THEN line ELSE firstNonEmptyLine(Tail(outputs))

\* %q (strconv.Quote): the text between double quotes, with a double quote
\* and a backslash behind a backslash, a control character as its backslash
\* letter, and a character that is not printable as backslash u and its four
\* hexadecimal digits in lower case. A character that has no notation in a
\* TLA+ string is written as its code point.
Quote(s) ==
    LET Esc(c) ==
            CASE c = "\"" -> <<"\\", "\"">>
              [] c = "\\" -> <<"\\", "\\">>
              [] c = "\n" -> <<"\\", "n">>
              [] c = "\r" -> <<"\\", "r">>
              [] c = "\t" -> <<"\\", "t">>
              [] c = "\f" -> <<"\\", "f">>
              [] c = "U+0007" -> <<"\\", "a">>
              [] c = "U+0008" -> <<"\\", "b">>
              [] c = "U+000B" -> <<"\\", "v">>
              [] c = "U+0085" -> <<"\\", "u", "0", "0", "8", "5">>
              [] c = "U+00A0" -> <<"\\", "u", "0", "0", "a", "0">>
              [] c = "U+1680" -> <<"\\", "u", "1", "6", "8", "0">>
              [] c = "U+2000" -> <<"\\", "u", "2", "0", "0", "0">>
              [] c = "U+2001" -> <<"\\", "u", "2", "0", "0", "1">>
              [] c = "U+2002" -> <<"\\", "u", "2", "0", "0", "2">>
              [] c = "U+2003" -> <<"\\", "u", "2", "0", "0", "3">>
              [] c = "U+2004" -> <<"\\", "u", "2", "0", "0", "4">>
              [] c = "U+2005" -> <<"\\", "u", "2", "0", "0", "5">>
              [] c = "U+2006" -> <<"\\", "u", "2", "0", "0", "6">>
              [] c = "U+2007" -> <<"\\", "u", "2", "0", "0", "7">>
              [] c = "U+2008" -> <<"\\", "u", "2", "0", "0", "8">>
              [] c = "U+2009" -> <<"\\", "u", "2", "0", "0", "9">>
              [] c = "U+200A" -> <<"\\", "u", "2", "0", "0", "a">>
              [] c = "U+2028" -> <<"\\", "u", "2", "0", "2", "8">>
              [] c = "U+2029" -> <<"\\", "u", "2", "0", "2", "9">>
              [] c = "U+202F" -> <<"\\", "u", "2", "0", "2", "f">>
              [] c = "U+205F" -> <<"\\", "u", "2", "0", "5", "f">>
              [] c = "U+3000" -> <<"\\", "u", "3", "0", "0", "0">>
              [] OTHER -> <<c>>
        RECURSIVE Body(_)
        Body(t) == IF t = <<>> THEN <<>> ELSE Esc(Head(t)) \o Body(Tail(t))
    IN <<"\"">> \o Body(s) \o <<"\"">>

\* Cmd after cmd.Run(): runErr is nil, exec.ErrNotFound, an *exec.ExitError or
\* another error. An error is its sentinel (kind) and the text after it.
CmdErrStdoutFirst(runErr, stderr, stdout) ==
    CASE runErr = "nil" -> [kind |-> "nil", text |-> <<>>]
      [] runErr = "notFound" ->
            [kind |-> "ErrTartNotFound", text |-> <<"tart command not found in PATH">>]
      [] runErr = "exit" ->
            [kind |-> "ErrTartFailed", text |-> Quote(firstNonEmptyLine(<<stdout, stderr>>))]
      [] OTHER -> [kind |-> "other", text |-> <<>>]

CmdErr(runErr, stderr, stdout) ==
    CASE runErr = "nil" -> [kind |-> "nil", text |-> <<>>]
      [] runErr = "notFound" ->
            [kind |-> "ErrTartNotFound", text |-> <<"tart command not found in PATH">>]
      [] runErr = "exit" ->
            [kind |-> "ErrTartFailed", text |-> Quote(firstNonEmptyLine(<<stderr, stdout>>))]
      [] OTHER -> [kind |-> "other", text |-> <<>>]

\* unicode.IsSpace: the white space of Go. A character that has no notation
\* in a TLA+ string is written as its code point.
WhiteSpace ==
    {"\t", "\n", "U+000B", "\f", "\r", " ", "U+0085", "U+00A0", "U+1680",
     "U+2000", "U+2001", "U+2002", "U+2003", "U+2004", "U+2005", "U+2006",
     "U+2007", "U+2008", "U+2009", "U+200A", "U+2028", "U+2029", "U+202F",
     "U+205F", "U+3000"}

\* strings.TrimSpace: white space cut off at both ends.
RECURSIVE TrimSpace(_)
TrimSpace(s) ==
    IF s = <<>> THEN <<>>
    ELSE IF Head(s) \in WhiteSpace THEN TrimSpace(Tail(s))
    ELSE IF s[Len(s)] \in WhiteSpace THEN TrimSpace(SubSeq(s, 1, Len(s) - 1))
    ELSE s

\* The invocation is made again after a failure.
RetrieveIPResultRetries(runErr, stderr, stdout, ident) ==
    LET e == CmdErr(runErr, stderr, stdout)
        call == <<<<"ip">>, <<"--wait">>, <<"30">>, ident>> IN
    IF e.kind # "nil"
    THEN [ip |-> <<>>, err |-> e, cmds |-> <<call, call>>]
    ELSE [ip |-> TrimSpace(stdout), err |-> e, cmds |-> <<call>>]

\* VM.RetrieveIP: the address and the error it returns, and the control-plane
\* invocations it makes.
RetrieveIPResult(runErr, stderr, stdout, ident) ==
    LET e == CmdErr(runErr, stderr, stdout)
        call == <<<<"ip">>, <<"--wait">>, <<"30">>, ident>> IN
    IF e.kind # "nil"
    THEN [ip |-> <<>>, err |-> e, cmds |-> <<call>>]
    ELSE [ip |-> TrimSpace(stdout), err |-> e, cmds |-> <<call>>]

\* The home directory and the working directory of the process.
Home == <<"/", "h">>
Cwd == <<"/", "w">>

\* filepath.Clean for a path without . and .. elements: repeated separators
\* are one, a trailing separator goes, the empty path is ".".
RECURSIVE Squeeze(_)
Squeeze(s) ==
    IF Len(s) < 2 THEN s
    ELSE IF s[1] = "/" /\ s[2] = "/" THEN Squeeze(Tail(s))
    ELSE <<s[1]>> \o Squeeze(Tail(s))

Clean(s) ==
    LET q == Squeeze(s) IN
    IF q = <<>> THEN <<".">>
    ELSE IF Len(q) > 1 /\ Last(q) = "/" THEN Front(q)
    ELSE q

\* filepath.Join(a, b): empty elements are left out, the rest is cleaned.
FilepathJoin(a, b) ==
    IF a = <<>> /\ b = <<>> THEN <<>>
    ELSE IF b = <<>> THEN Clean(a)
    ELSE IF a = <<>> THEN Clean(b)
    ELSE Clean(a \o <<"/">> \o b)

\* filepath.Base(path) of a cleaned absolute path
Base(path) ==
    IF path = <<"/">> THEN path
    ELSE Last(Split(path, "/"))

\* One --dir value in parseDirectoryMounts. env says whether os.UserHomeDir and
\* os.Getwd (inside filepath.Abs) work.
ParseDir(dir, env) ==
    LET parts == Split(dir, ":") IN
    IF Len(parts) < 2
    THEN [err |-> "invalid --dir format", mount |-> <<>>]
    ELSE LET name == parts[1]
             path == parts[2]
             tilde == HasPrefix(path, "~")
             expanded == IF tilde THEN FilepathJoin(Home, Tail(path)) ELSE path
             isAbs == HasPrefix(expanded, "/")
             absPath == IF isAbs THEN Clean(expanded) ELSE FilepathJoin(Cwd, expanded)
             readOnly == Len(parts) > 2 /\ parts[3] = <<"r", "o">>
         IN IF tilde /\ env = "noHome"
            THEN [err |-> "failed to get home directory", mount |-> <<>>]
            ELSE IF ~isAbs /\ env = "noCwd"
            THEN [err |-> "failed to get absolute path", mount |-> <<>>]
            ELSE [err |-> "",
                  mount |-> [Name |-> name, Path |-> absPath, Tag |-> <<>>,
                             ReadOnly |-> readOnly]]

\* parseDirectoryMounts(dirs): the first entry that fails ends it with nil
\* mounts and the error.
RECURSIVE parseDirectoryMounts(_, _, _)
parseDirectoryMounts(dirs, env, mounts) ==
    IF dirs = <<>> THEN [mounts |-> mounts, err |-> ""]
    ELSE LET r == ParseDir(Head(dirs), env) IN
         IF r.err # "" THEN [mounts |-> <<>>, err |-> r.err]
         ELSE parseDirectoryMounts(Tail(dirs), env, Append(mounts, r.mount))

\* runCommand: the working directory's mount, then the parsed ones.
DirectoryMounts(additionalMounts) ==
    <<[Name |-> Base(Cwd), Path |-> Cwd, Tag |-> <<>>, ReadOnly |-> FALSE]>>
        \o additionalMounts

\* The arguments the functions are called with.
MountNames == {<<"d", "o", "c", "s">>, <<"d">>}
MountPaths == {<<"/", "a", "/", "b">>}
MountTags == {<<>>, <<"t", "1">>}
Mounts == [Name : MountNames, Path : MountPaths, Tag : MountTags, ReadOnly : BOOLEAN]
Idents == {<<"chamber-ephemeral-", "t">>}

\* time.Now(): a clock second and the part of the second that has passed.
MaxSecond == 1
MaxFrac == 1
MaxHandles == 2
Instants == [sec : 0..MaxSecond, frac : 0..MaxFrac]
Later(a, b) == a.sec < b.sec \/ (a.sec = b.sec /\ a.frac < b.frac)

\* The instants of successive invocations: the clock moves on between them.
InstantSeqs ==
    {ts \in [1..MaxHandles -> Instants] :
        \A i \in 1..(MaxHandles - 1) : Later(ts[i], ts[i + 1])}

\* The decimal digits of a number, as time.Format writes them.
Digits == <<"0", "1", "2", "3", "4", "5", "6", "7", "8", "9">>
RECURSIVE Itoa(_)
Itoa(n) == IF n < 10 THEN <<Digits[n + 1]>> ELSE Itoa(n \div 10) \o <<Digits[(n % 10) + 1]>>

\* time.Now().Format("20060102-150405"): the layout ends at the second.
TimeFormat(t) == Itoa(t.sec)

\* vmNamePrefix + timestamp
vmNamePrefix == <<"chamber-ephemeral-">>
NewIdent(now) == vmNamePrefix \o TimeFormat(now)

\* NewVMClonedFrom: the handle, or nil and the wrapped error of tart clone.
NewVMClonedFrom(now, cloneOk) ==
    IF cloneOk
    THEN [vm |-> [ident |-> NewIdent(now)], err |-> Nil]
    ELSE [vm |-> <<>>, err |-> Wrap("failed to clone VM", ErrTartFailed("clone"))]

RunErrs == {"nil", "notFound", "exit", "other"}
OutChars == {"x", " ", "\n"}
Outputs == Seqs(OutChars, MaxOutLen)

DirNames == {<<>>, <<" ">>, <<"d">>, <<"w">>}
DirPaths == {<<"/", "p">>, <<"~", "/", "q">>, <<"r">>}
DirThirds == {<<"r", "o">>, <<"r", "w">>}
DirEntries ==
    {<<"d">>}
        \cup {n \o <<":">> \o q : n \in DirNames, q \in DirPaths}
        \cup {n \o <<":">> \o q \o <<":">> \o t :
                 n \in DirNames, q \in DirPaths, t \in DirThirds}
Envs == {"ok", "noHome", "noCwd"}

notPure == <<orchVars, vmVars, histVars, mainT, rawT, sessT, watchT, sizeT, copyT,
             isTTY, sshVars>>

InitPure ==
    /\ pc = "fn"
    /\ defers = <<>>
    /\ ctxCancelled = FALSE
    /\ interrupted = FALSE
    /\ interactive = FALSE
    /\ sshClient = "none"
    /\ mounted = FALSE
    /\ remoteCmd = "none"
    /\ exitCode = 0
    /\ ret = Nil
    /\ warnings = <<>>
    /\ failedStep = "none"
    /\ vmCreated = FALSE
    /\ isTTY = FALSE
    /\ InitVM /\ InitHist /\ InitTermIdle /\ InitSSHIdle
    /\ pout = <<>>
    /\ pdone = FALSE
    /\ \/ /\ pfn = "Start"
          /\ pin \in [mounts : Seqs(Mounts, MaxMounts), ident : Idents]
       \/ /\ pfn = "Cmd"
          /\ pin \in [runErr : RunErrs, stderr : Outputs, stdout : Outputs]
       \/ /\ pfn = "parseDirectoryMounts"
          /\ pin \in [dirs : Seqs(DirEntries, MaxDirs), env : Envs]
       \/ /\ pfn = "RetrieveIP"
          /\ pin \in [runErr : RunErrs, stderr : Outputs, stdout : Seqs(OutChars \cup {"\f"}, MaxOutLen),
                        ident : Idents]
       \/ /\ pfn = "NewVMClonedFrom"
          /\ pin \in [nows : InstantSeqs, cloneOk : [1..MaxHandles -> BOOLEAN]]

\* VM.Start builds the arguments of tart run.
CallStartArgs ==
    /\ pfn = "Start"
    /\ ~pdone
    /\ pout' = StartArgs(pin.mounts, pin.ident)
    /\ pdone' = TRUE
    /\ UNCHANGED <<pfn, pin, notPure>>

\* Cmd turns the outcome of cmd.Run() into its error.
CallCmd ==
    /\ pfn = "Cmd"
    /\ ~pdone
    /\ pout' = CmdErr(pin.runErr, pin.stderr, pin.stdout)
    /\ pdone' = TRUE
    /\ UNCHANGED <<pfn, pin, notPure>>

\* runCommand parses the --dir values.
CallParseDirectoryMounts ==
    /\ pfn = "parseDirectoryMounts"
    /\ ~pdone
    /\ pout' = parseDirectoryMounts(pin.dirs, pin.env, <<>>)
    /\ pdone' = TRUE
    /\ UNCHANGED <<pfn, pin, notPure>>

\* Invocations of NewVMClonedFrom, one after the other.
CallNewVMClonedFrom ==
    /\ pfn = "NewVMClonedFrom"
    /\ ~pdone
    /\ pout' = [i \in 1..MaxHandles |-> NewVMClonedFrom(pin.nows[i], pin.cloneOk[i])]
    /\ pdone' = TRUE
    /\ UNCHANGED <<pfn, pin, notPure>>

\* vm.RetrieveIP(ctx)
CallRetrieveIP ==
    /\ pfn = "RetrieveIP"
    /\ ~pdone
    /\ pout' = RetrieveIPResult(pin.runErr, pin.stderr, pin.stdout, pin.ident)
    /\ pdone' = TRUE
    /\ UNCHANGED <<pfn, pin, notPure>>

NextPure ==
    \/ CallStartArgs \/ CallCmd \/ CallParseDirectoryMounts \/ CallNewVMClonedFrom
    \/ CallRetrieveIP

SpecPure == InitPure /\ [][NextPure]_vars

\* ------------------------------------------------ chamber init (runInit)
\* runInit is called: nothing is deferred and chamber-seed does not exist.
InitRunInit ==
    /\ pc = "initInstalled"
    /\ defers = <<>>
    /\ ctxCancelled = FALSE
    /\ interrupted = FALSE
    /\ interactive = TRUE
    /\ sshClient = "none"
    /\ mounted = FALSE
    /\ remoteCmd = "none"
    /\ exitCode = 0
    /\ ret = Nil
    /\ warnings = <<>>
    /\ failedStep = "none"
    /\ vmCreated = FALSE
    /\ isTTY = TRUE
    /\ InitVM /\ InitHist /\ InitTermIdle
    /\ InitSSHIdle /\ InitPureIdle

\* if !tart.Installed() { return the error }; then ctx, cancel :=
\* context.WithCancel(ctx), defer cancel() and the signal handler.
InitInstalled ==
    /\ pc = "initInstalled"
    /\ \E ok \in BOOLEAN :
         IF ok
         THEN /\ defers' = Append(defers, "cancel")
              /\ pc' = "initClone"
              /\ UNCHANGED <<ret, failedStep>>
         ELSE /\ Return(Err("tart is not installed"), "initInstalled")
              /\ UNCHANGED defers
    /\ UNCHANGED <<ctxCancelled, interrupted, interactive, sshClient, mounted,
                   remoteCmd, exitCode, warnings, vmCreated>>
    /\ UNCHANGED <<vmVars, histVars, termVars>>

\* tart.CloneVM(ctx, remoteVM, "chamber-seed"): the error of tart clone comes
\* back wrapped by CloneVM and again by runInit.
InitClone ==
    /\ pc = "initClone"
    /\ \E ok \in BOOLEAN :
         LET e == Cmd(ctxCancelled, ok, "clone") IN
         IF e = Nil
         THEN /\ tartVM' = "stopped"
              /\ vmCreated' = TRUE
              /\ pc' = "initNewVM"
              /\ UNCHANGED <<ret, failedStep>>
         ELSE /\ Return(Wrap("failed to clone VM", Wrap("failed to clone VM from to", e)),
                        "initClone")
              /\ UNCHANGED <<tartVM, vmCreated>>
    /\ UNCHANGED <<defers, ctxCancelled, interrupted, interactive, sshClient, mounted,
                   remoteCmd, exitCode, warnings>>
    /\ UNCHANGED <<runProc, runCtxCancelled, wg, errChan, sup, supErr, stopCmdErr, lastErr>>
    /\ UNCHANGED <<histVars, termVars>>

\* vm, err := tart.NewVM(ctx, "chamber-seed"), which returns no error, and
\* defer func() { vm.StopWithContext(ctx) ... }()
InitNewVM ==
    /\ pc = "initNewVM"
    /\ defers' = Append(defers, "vmStop")
    /\ pc' = "initStart"
    /\ UNCHANGED <<ctxCancelled, interrupted, interactive, sshClient, mounted, remoteCmd,
                   exitCode, ret, warnings, failedStep, vmCreated>>
    /\ UNCHANGED <<vmVars, histVars, termVars>>

\* ip, err := vm.RetrieveIP(ctx)
InitRetrieveIP ==
    /\ pc = "initIP"
    /\ \E ok \in BOOLEAN :
         LET e == Cmd(ctxCancelled, ok /\ tartVM = "running", "ip") IN
         IF e = Nil
         THEN pc' = "initConnect" /\ UNCHANGED <<ret, failedStep>>
         ELSE Return(Wrap("failed to get VM IP", e), "initIP")
    /\ UNCHANGED <<defers, ctxCancelled, interrupted, interactive, sshClient, mounted,
                   remoteCmd, exitCode, warnings, vmCreated>>
    /\ UNCHANGED <<vmVars, histVars, termVars>>

\* sshClient, err := ssh.WaitForSSH(ctx, ...); defer sshClient.Close()
InitConnect ==
    /\ pc = "initConnect"
    /\ ~ctxCancelled
    /\ tartVM = "running"
    /\ sshClient' = "open"
    /\ defers' = Append(defers, "sshClose")
    /\ pc' = "initInstall"
    /\ UNCHANGED <<ctxCancelled, interrupted, interactive, mounted, remoteCmd,
                   exitCode, ret, warnings, failedStep, vmCreated>>
    /\ UNCHANGED <<vmVars, histVars, termVars>>

InitConnectCancelled ==
    /\ pc = "initConnect"
    /\ ctxCancelled
    /\ Return(Wrap("failed to connect via SSH",
                   Wrap("failed to connect via SSH", CtxCanceled)), "initConnect")
    /\ UNCHANGED <<defers, ctxCancelled, interrupted, interactive, sshClient, mounted,
                   remoteCmd, exitCode, warnings, vmCreated>>
    /\ UNCHANGED <<vmVars, histVars, termVars>>

\* session, err := sshClient.NewSession(); defer session.Close(); for the
\* second session (pty) session2.RequestPty("xterm", 80, 24, nil);
\* session.Run(command) starts the command ...
InitSessionRun(at, next, msg, pty) ==
    /\ pc = at
    /\ \E outcome \in {"started", "noSession", "noStart"}
                        \cup (IF pty THEN {"noPty"} ELSE {}) :
         CASE outcome = "started" ->
                /\ defers' = Append(defers, "sessionClose")
                /\ remoteCmd' = "running"
                /\ pc' = next
                /\ UNCHANGED <<ret, failedStep>>
           [] outcome = "noSession" ->
                /\ Return(Wrap("failed to create SSH session", SSHError), at)
                /\ UNCHANGED <<defers, remoteCmd>>
           [] outcome = "noPty" ->
                /\ defers' = Append(defers, "sessionClose")
                /\ Return(Wrap("failed to request PTY", SSHError), at)
                /\ UNCHANGED remoteCmd
           [] outcome = "noStart" ->
                /\ defers' = Append(defers, "sessionClose")
                /\ Return(Wrap(msg, SSHError), at)
                /\ UNCHANGED remoteCmd
    /\ UNCHANGED <<ctxCancelled, interrupted, interactive, sshClient, mounted,
                   exitCode, warnings, vmCreated>>
    /\ UNCHANGED <<vmVars, histVars, termVars>>

\* ... and waits for its end, whatever happens to ctx.
InitSessionWait(at, next, msg) ==
    /\ pc = at
    /\ remoteCmd \in {"exited", "dropped"}
    /\ LET e == WaitErr(remoteCmd, exitCode) IN
         IF e = Nil
         THEN pc' = next /\ UNCHANGED <<ret, failedStep>>
         ELSE Return(Wrap(msg, e), at)
    /\ remoteCmd' = "none"
    /\ UNCHANGED <<defers, ctxCancelled, interrupted, interactive, sshClient, mounted,
                   exitCode, warnings, vmCreated>>
    /\ UNCHANGED <<vmVars, histVars, termVars>>

\* defer session.Close() / defer session2.Close()
DeferredInitSessionClose ==
    /\ pc = "unwind"
    /\ defers # <<>> /\ Last(defers) = "sessionClose"
    /\ defers' = Front(defers)
    /\ remoteCmd' = IF remoteCmd = "running" THEN "dropped" ELSE remoteCmd
    /\ UNCHANGED <<pc, ctxCancelled, interrupted, interactive, sshClient, mounted,
                   exitCode, ret, warnings, failedStep, vmCreated>>
    /\ UNCHANGED <<vmVars, histVars, termVars>>

\* defer func() { if err := vm.StopWithContext(ctx); err != nil { warning } }()
\* with the ctx of runInit, the one the signal handler cancels.
DeferredStopWithContext ==
    /\ pc = "unwind"
    /\ defers # <<>> /\ Last(defers) = "vmStop"
    /\ defers' = Front(defers)
    /\ pc' = "initStopGraceful"
    /\ UNCHANGED <<ctxCancelled, interrupted, interactive, sshClient, mounted, remoteCmd,
                   exitCode, ret, warnings, failedStep, vmCreated>>
    /\ UNCHANGED <<vmVars, histVars, termVars>>

InitStopDone ==
    /\ pc = "initStopDone"
    /\ warnings' = IF lastErr # Nil THEN Append(warnings, lastErr) ELSE warnings
    /\ pc' = "unwind"
    /\ UNCHANGED <<defers, ctxCancelled, interrupted, interactive, sshClient, mounted,
                   remoteCmd, exitCode, ret, failedStep, vmCreated>>
    /\ UNCHANGED <<vmVars, histVars, termVars>>

\* The signal handler of runInit exists once tart was found installed.
NextInit ==
    \/ InitInstalled \/ InitClone \/ InitNewVM
    \/ Start("initStart", "initIP")
    \/ InitRetrieveIP \/ InitConnect \/ InitConnectCancelled
    \/ InitSessionRun("initInstall", "initInstallWait", "failed to install claude-code", FALSE)
    \/ InitSessionWait("initInstallWait", "initSetup", "failed to install claude-code")
    \/ InitSessionRun("initSetup", "initSetupWait", "failed to run claude setup-token", TRUE)
    \/ InitSessionWait("initSetupWait", "unwind", "failed to run claude setup-token")
    \/ DeferredInitSessionClose \/ DeferredSSHClose \/ DeferredStopWithContext
    \/ StopGraceful("initStopGraceful", "initStopCancel", ctxCancelled)
    \/ StopCancel("initStopCancel", "initStopJoin")
    \/ StopJoin("initStopJoin", "initStopDone")
    \/ InitStopDone \/ DeferredCancel \/ Returned
    \/ SupervisorStep
    \/ VMExit \/ RemoteExit \/ TransportDrop
    \/ (pc # "initInstalled" /\ Interrupt)

SpecInit == InitRunInit /\ [][NextInit]_vars

\* ------------------------------------------------------------ claims
\* C1: on every exit path of the orchestrator after the clone succeeded, VM
\* Stop and then VM Delete have both been invoked when the orchestrator has
\* returned.
C1_CleanupOnEveryExit ==
    (pc = "done" /\ vmCreated) => Before(trace, "stopInvoked", "deleteInvoked")

C1_Witness ==
    /\ pc = "done"
    /\ vmCreated
    /\ failedStep = "retrieveIP"
    /\ Before(trace, "stopInvoked", "deleteInvoked")

\* C2: once the operator has interrupted a run whose remote command is
\* running, the orchestrator eventually leaves its wait for the session, the
\* only way to the teardown path on which the VM is stopped and then deleted.
C2_InterruptLeadsToTeardown ==
    (interrupted /\ vmCreated /\ remoteCmd = "running") ~> (pc # "sessionWait")

\* C3: teardown is in reverse order of acquisition: with a connection opened,
\* it is closed before VM Stop is invoked, and VM Stop has returned before VM
\* Delete is invoked.
C3_ReverseTeardown ==
    /\ (Has(trace, "stopInvoked") /\ sshClient # "none")
          => Before(trace, "sshClose", "stopInvoked")
    /\ Has(trace, "deleteInvoked") => Before(trace, "stopReturned", "deleteInvoked")

C3_Witness ==
    /\ pc = "done"
    /\ sshClient = "closed"
    /\ Has(trace, "deleteInvoked")

\* The first message of the error each step of the orchestrator returns.
PrimaryMsgs(step) ==
    CASE step = "clone" -> {"failed to clone VM"}
      [] step = "configure" -> {"failed to set random MAC", "failed to set CPU count",
                                "failed to set memory"}
      [] step = "parseMounts" -> {"invalid --dir format", "failed to get home directory",
                                  "failed to get absolute path"}
      [] step = "retrieveIP" -> {"failed to get VM IP"}
      [] step = "checkErrChan" -> {"VM failed to start"}
      [] step = "connect" -> {"failed to connect via SSH"}
      [] step = "mount" -> {"failed to create SSH session",
                            "failed to mount working directory"}
      [] step = "execSetup" -> {Head(e.msgs) : e \in SetupErrors(interactive, isTTY)}
      [] step = "exec" -> {"command failed", "command exited with status",
                           "failed to run command", "ssh.ExitError",
                           "ssh.ExitMissingError"}
      [] OTHER -> {}

\* C4: what the orchestrator returns is the error of the step that failed, or
\* nil when none did; an error of the VM cleanup is a warning and never the
\* result.
C4_PrimaryErrorNotMasked ==
    pc = "done" =>
        /\ (failedStep = "none") <=> (ret = Nil)
        /\ failedStep # "none" => Head(ret.msgs) \in PrimaryMsgs(failedStep)
        /\ (vmCreated /\ lastErr # Nil) => Has(warnings, lastErr)

C4_Witness ==
    /\ pc = "done"
    /\ failedStep = "exec"
    /\ lastErr = ErrTartFailed("delete")
    /\ Has(warnings, lastErr)

\* The kind of an error: its chain of messages, whatever status it carries.
ErrKind(e) == e.msgs

\* The errors a path returns for a transport or session failure.
TransportErrors(inter, tty) ==
    {SessionResult(inter, tty, ExitMissingError)} \cup SetupErrors(inter, tty)

\* C8: a remote command that exits with a non-zero code N gives an error that
\* carries N and whose kind differs from that of every transport or session
\* failure on the same path, interactive or not.
C8_ExitCodeDistinct ==
    (pc = "done" /\ remoteCmd = "exited" /\ exitCode # 0) =>
        /\ ret.code = exitCode
        /\ \A t \in TransportErrors(interactive, isTTY) : ErrKind(ret) # ErrKind(t)

C8_Witness ==
    /\ pc = "done"
    /\ interactive /\ isTTY
    /\ remoteCmd = "exited"
    /\ exitCode = MaxExitCode
    /\ ret = Wrap("command failed", ExitError(MaxExitCode))

\* The handle's state and the VM's.
HandleState == <<tartVM, runProc, runCtxCancelled, wg, errChan, sup>>

StopThenDeleteDone ==
    \E i, j \in 1..Len(calls) :
        i < j /\ calls[i].op = "Stop" /\ calls[j].op = "Delete"

\* C9: after Stop followed by Delete, another Stop is a no-op: no step of it
\* changes the VM or the handle, it does not wait at its join, and it returns
\* nil.
C9_SecondStopNoOp ==
    [][(StopThenDeleteDone /\ pc' \in {"apiStopCancel", "apiStopJoin", "apiStopRet"})
          => /\ HandleState' = HandleState
             /\ pc' = "apiStopJoin" => wg' = 0
             /\ pc' = "apiStopRet" => lastErr' = Nil]_vars

C9_Witness ==
    /\ Len(calls) >= 3
    /\ calls[1].op = "Stop"
    /\ calls[2] = [op |-> "Delete", res |-> Nil]
    /\ calls[3] = [op |-> "Stop", res |-> Nil]
    /\ sup = "done"

\* The run operation never came up: Start was not called, or its run failed.
NeverRan == runProc = "none" /\ sup \in {"none", "done"}

\* C10 as stated: on a handle whose run never came up Stop returns nil without
\* waiting, and repeating Stop or Delete yields the outcome of the first call:
\* after a call that returned nil, every later call of it returns nil.
C10_SameOutcomeOnRepeat ==
    NeverRan =>
        /\ pc = "apiStopJoin" => wg = 0
        /\ \A i, j \in 1..Len(calls) :
              (i < j /\ calls[i].op = calls[j].op /\ calls[i].res = Nil)
                 => calls[j].res = Nil

\* C10 amended: on such a handle Stop returns nil without waiting, every time;
\* Delete leaves the VM deleted once one Delete has succeeded, and every later
\* Delete then fails with ErrTartFailed.
C10_StopIdempotentDeleteFailsAfter ==
    NeverRan =>
        /\ pc = "apiStopJoin" => wg = 0
        /\ \A i \in 1..Len(calls) : calls[i].op = "Stop" => calls[i].res = Nil
        /\ \A i, j \in 1..Len(calls) :
              (i < j /\ calls[i] = [op |-> "Delete", res |-> Nil]
                     /\ calls[j].op = "Delete")
                 => calls[j].res = ErrTartFailed("delete")
        /\ (\E i \in 1..Len(calls) : calls[i] = [op |-> "Delete", res |-> Nil])
              => tartVM = "absent"

C10_Witness ==
    /\ NeverRan
    /\ Len(calls) >= 4
    /\ calls[1] = [op |-> "Stop", res |-> Nil]
    /\ calls[2] = [op |-> "Stop", res |-> Nil]
    /\ calls[3] = [op |-> "Delete", res |-> Nil]
    /\ calls[4] = [op |-> "Delete", res |-> ErrTartFailed("delete")]


\* C5: a session that entered raw mode restores the terminal exactly once by
\* the time RunInteractiveCommand is left, and never twice at any time.
C5_RestoredExactlyOnce ==
    /\ restoreCount <= 1
    /\ (tpc \in {"returned", "panicked"} /\ rawEntered)
          => (restoreCount = 1 /\ ~rawMode)

C5_Witness ==
    /\ tpc = "returned"
    /\ rawEntered
    /\ tret = Wrap("command failed", ExitError(1))
    /\ restoreCount = 1

\* C6: no WindowChange is made once the main goroutine has seen session.Wait
\* return; at the latest, none once it has then cancelled the scope.
C6_NoResizeAfterWait == lateResizes = 0

TasksEnded ==
    /\ copyIn \in {"none", "done"}
    /\ copyOut \in {"none", "done"}
    /\ copyErr \in {"none", "done"}
    /\ wpc \in {"none", "done"}

\* C7: the terminal is restored only when the three copies and the resize
\* watcher have all ended, and the watcher has ended when the session is left.
C7_RestoreAfterAllTasks ==
    [][/\ restoreCount' > restoreCount => (panicking \/ TasksEnded)
       /\ tpc' = "returned" => wpc' \in {"none", "done"}]_vars

\* C11: the supervisor's result is delivered exactly once per Start: only the
\* supervisor adds to the channel, it adds its own result, after the run
\* operation has ended, on a free slot of the one the channel has, and a
\* supervisor that has sent never sends again.
C11_DeliveredExactlyOnce ==
    [][/\ Len(errChan') > Len(errChan)
            => /\ sup = "send" /\ sup' = "sent"
               /\ runProc # "running"
               /\ errChan = <<>>
               /\ errChan' = <<supErr>>
       /\ Len(errChan') <= 1
       /\ sup' = "send" => Len(errChan') = 0
       /\ sup \in {"sent", "done"} => sup' \in {"sent", "done"}
       /\ sup' \in {"sent", "done"} => sup \in {"send", "sent", "done"}]_vars

C11_Witness ==
    /\ sup = "done"
    /\ runProc = "killed"
    /\ errChan = <<ErrTartFailed("run")>>

\* C12: Stop goes in a fixed order: the supervisor's context is cancelled only
\* right after the graceful stop request of the same Stop has completed, and
\* Stop returns only after that cancel, with the supervisor fully exited.
C12_StopOrder ==
    [][/\ (runCtxCancelled' /\ ~runCtxCancelled) => Has(trace, "stopInvoked")
       /\ (trace' # trace /\ Last(trace') = "ctxCancel")
             => (trace # <<>> /\ Last(trace) = "stopInvoked")
       /\ (trace' # trace /\ Last(trace') = "stopReturned")
             => /\ trace # <<>> /\ Last(trace) = "ctxCancel"
                /\ sup \in {"none", "done"}
                /\ wg = 0]_vars

C12_Witness ==
    /\ Len(calls) >= 1
    /\ calls[1] = [op |-> "Stop", res |-> Nil]
    /\ stopCmdErr = ErrTartFailed("stop")
    /\ runProc = "killed"
    /\ sup = "done"

\* C13: a VM whose run operation has failed before the VM came up is reported
\* as a VM-start failure: with the run already failed (and no interrupt), the
\* orchestrator's address retrieval does not end in the address-retrieval
\* failure that a live VM without an address gets.
C13_StartFailureDistinct ==
    [][(/\ pc = "retrieveIP"
        /\ pc' # "retrieveIP"
        /\ ~ctxCancelled
        /\ runProc = "none"
        /\ supErr = ErrTartFailed("run"))
           => failedStep' # "retrieveIP"]_vars

\* C14: WaitForSSH returns a connection only after an attempt in which the
\* dial and the handshake both succeeded, and that attempt is its last: no
\* attempt follows the first successful one.
C14_ConnectionOnlyAfterHandshake ==
    /\ (spc = "returned" /\ sret = Nil)
          => (attemptLog # <<>> /\ Last(attemptLog) = "ok")
    /\ \A i \in 1..Len(attemptLog) :
          attemptLog[i] = "ok"
             => /\ i = Len(attemptLog)
                /\ attempts = Len(attemptLog)
                /\ spc \in {"connected", "returned"}
                /\ sret = Nil

C14_Witness ==
    /\ spc = "returned"
    /\ sret = Nil
    /\ attemptLog = <<"dialFailed", "handshakeFailed", "ok">>

\* C15: WaitForSSH returns an error only when the caller's context is done, and
\* the error is then the wrapped cancellation, however many attempts failed.
C15_ErrorOnlyAfterCancel ==
    (spc = "returned" /\ sret # Nil)
        => /\ ctxCancelled
           /\ sret = Wrap("failed to connect via SSH", CtxCanceled)

C15_Witness ==
    /\ spc = "returned"
    /\ sret = Wrap("failed to connect via SSH", CtxCanceled)
    /\ Len(attemptLog) = MaxAttempts
    /\ \A i \in 1..Len(attemptLog) : attemptLog[i] # "ok"

\* C16: once the caller's context is cancelled while WaitForSSH is in a dial,
\* in a handshake or in the delay, WaitForSSH returns.
C16_CancelEndsWait ==
    (ctxCancelled /\ spc \in {"dial", "handshake", "delay"}) ~> (spc = "returned")

\* The --dir value the format gives for a mount: name:path, then :tag=t when
\* there is a tag, ro when read-only, the two joined by a comma.
ExpectedDirArg(dm) ==
    LET np == dm.Name \o <<":">> \o dm.Path IN
    CASE dm.Tag = <<>> /\ ~dm.ReadOnly -> np
      [] dm.Tag = <<>> /\ dm.ReadOnly -> np \o <<":", "r", "o">>
      [] dm.Tag # <<>> /\ ~dm.ReadOnly -> np \o <<":", "t", "a", "g", "=">> \o dm.Tag
      [] OTHER -> np \o <<":", "t", "a", "g", "=">> \o dm.Tag \o <<",", "r", "o">>

\* C17: Start gives every mount the flag pair --dir and name:path, followed by
\* :tag=t for a tag and ro for read-only (comma-joined, in that order), and
\* exactly name:path when there is neither.
C17_DirArgumentFormat ==
    (pfn = "Start" /\ pdone) =>
        /\ Len(pout) = 4 + 2 * Len(pin.mounts)
        /\ \A i \in 1..Len(pin.mounts) :
              /\ pout[2 + 2 * i] = DirFlag
              /\ pout[3 + 2 * i] = ExpectedDirArg(pin.mounts[i])

C17_Witness ==
    /\ pfn = "Start"
    /\ pdone
    /\ pin.mounts = <<[Name |-> <<"d", "o", "c", "s">>, Path |-> <<"/", "a", "/", "b">>,
                       Tag |-> <<"t", "1">>, ReadOnly |-> TRUE]>>
    /\ pout[5] = <<"d", "o", "c", "s", ":", "/", "a", "/", "b", ":",
                   "t", "a", "g", "=", "t", "1", ",", "r", "o">>

\* The first non-empty line of a text, by position: it starts at the first
\* character that is not a line end and runs to the next line end.
FirstLineOf(s) ==
    LET starts == {a \in 1..Len(s) : s[a] # "\n"} IN
    IF starts = {} THEN <<>>
    ELSE LET a == CHOOSE x \in starts : \A y \in starts : x <= y
             ends == {b \in a..Len(s) : \A k \in a..b : s[k] # "\n"}
             b == CHOOSE x \in ends : \A y \in ends : y <= x
         IN SubSeq(s, a, b)

ExpectedLine(stderr, stdout) ==
    IF FirstLineOf(stderr) # <<>> THEN FirstLineOf(stderr) ELSE FirstLineOf(stdout)

\* C18: a control binary that cannot be located gives ErrTartNotFound, one that
\* exits non-zero gives ErrTartFailed with the first non-empty line of stderr,
\* or of stdout when stderr has none; neither kind comes from the other cause.
C18_FailureClassification ==
    (pfn = "Cmd" /\ pdone) =>
        /\ pin.runErr = "notFound" => pout.kind = "ErrTartNotFound"
        /\ pin.runErr = "exit"
              => /\ pout.kind = "ErrTartFailed"
                 /\ pout.text = Quote(ExpectedLine(pin.stderr, pin.stdout))
        /\ pout.kind = "ErrTartNotFound" => pin.runErr = "notFound"
        /\ pout.kind = "ErrTartFailed" => pin.runErr = "exit"

C18_Witness ==
    /\ pfn = "Cmd"
    /\ pdone
    /\ pin = [runErr |-> "exit", stderr |-> <<"\n">>, stdout |-> <<"\n", "x", " ">>]
    /\ pout = [kind |-> "ErrTartFailed", text |-> <<"\"", "x", " ", "\"">>]

\* C19: the mounts of one VM, the working directory's included, have distinct
\* names: --dir values that would repeat a name are rejected.
C19_MountNamesUnique ==
    (pfn = "parseDirectoryMounts" /\ pdone /\ pout.err = "") =>
        LET all == DirectoryMounts(pout.mounts) IN
        \A i, j \in 1..Len(all) : all[i].Name = all[j].Name => i = j

\* A --dir value is malformed when it has no path segment, when its name is
\* empty or blank, or when it has a third segment that is not ro.
Malformed(dir) ==
    LET colons == {i \in 1..Len(dir) : dir[i] = ":"} IN
    \/ colons = {}
    \/ /\ colons # {}
       /\ LET c1 == CHOOSE x \in colons : \A y \in colons : x <= y IN
          \/ \A k \in 1..(c1 - 1) : dir[k] = " "
          \/ /\ colons \ {c1} # {}
             /\ LET rest == colons \ {c1}
                    c2 == CHOOSE x \in rest : \A y \in rest : x <= y
                    after == rest \ {c2}
                    c3 == IF after = {} THEN Len(dir) + 1
                          ELSE CHOOSE x \in after : \A y \in after : x <= y
                IN SubSeq(dir, c2 + 1, c3 - 1) # <<"r", "o">>

\* C20: parseDirectoryMounts returns an error and no mounts whenever one of
\* the --dir values is malformed.
C20_MalformedRejected ==
    (/\ pfn = "parseDirectoryMounts"
     /\ pdone
     /\ \E i \in 1..Len(pin.dirs) : Malformed(pin.dirs[i]))
        => (pout.err # "" /\ pout.mounts = <<>>)


\* The steps of the interactive path that come before the remote command.
PtyAndPipes == <<"requestPty", "stdinPipe", "stdoutPipe", "stderrPipe">>

PtyAndPipeMsgs ==
    {"failed to request pty", "failed to get stdin pipe",
     "failed to get stdout pipe", "failed to get stderr pipe"}

\* C21: on the interactive path the remote command is started only after the
\* PTY request has succeeded and the three pipes have been obtained, in that
\* order; when one of these steps has failed the command is never started.
C21_StartAfterPtyAndPipes ==
    isTTY =>
      /\ (remoteCmd # "none" \/ Has(established, "start")) =>
            established = PtyAndPipes \o <<"start">>
      /\ (tret # Nil /\ Head(tret.msgs) \in PtyAndPipeMsgs) =>
            (remoteCmd = "none" /\ ~Has(established, "start"))

C21_Witness ==
    /\ isTTY
    /\ remoteCmd = "running"
    /\ established = PtyAndPipes \o <<"start">>


\* C22 (as stated): the scope of the watcher is never cancelled while the
\* remote command is still running, outer-context cancellation included.
C22_ScopeCancelledOnlyAfterCompletion ==
    (ScopeDone /\ ~panicking) => remoteCmd # "running"

\* C22 (amended): the proxy's own cancel() of the scope comes only after
\* session.Wait has returned, or while unwinding when the command was never
\* started; a scope that is done while the command is still running is done
\* because the caller's context was cancelled.
C22_OwnCancelOnlyAfterCompletion ==
    ~panicking =>
      /\ scopeCancelled =>
            /\ remoteCmd # "running"
            /\ waitDone \/ ~Has(established, "start")
      /\ (ScopeDone /\ remoteCmd = "running") => ctxCancelled

C22_Witness ==
    /\ ~panicking
    /\ ctxCancelled /\ ~scopeCancelled
    /\ remoteCmd = "running"
    /\ wpc = "done"


\* C23: Close is Stop and then Delete, cut short at the first error. Delete is
\* invoked only directly after Stop has returned without error, and never
\* while the supervisor task of the handle is still running; what Close
\* returns is Stop's error when Delete was not invoked, else Delete's result.
C23_CloseStopThenDelete ==
    /\ [][(Len(trace') = Len(trace) + 1 /\ Last(trace') = "deleteInvoked") =>
             /\ trace # <<>> /\ Last(trace) = "stopReturned"
             /\ lastErr = Nil
             /\ sup \in {"none", "done"} /\ wg = 0]_vars
    /\ [](pc = "closeDone" =>
             IF Has(trace, "deleteInvoked")
             THEN lastErr \in {Nil, ErrTartFailed("delete")}
                  /\ (lastErr = Nil <=> tartVM = "absent")
             ELSE lastErr # Nil)

C23_Witness ==
    /\ pc = "closeDone"
    /\ Before(trace, "stopReturned", "deleteInvoked")
    /\ sup = "done"
    /\ lastErr = ErrTartFailed("delete")


\* C24: any two handles made by NewVMClonedFrom have different identities,
\* also when the two invocations fall into the same clock second.
C24_IdentityUnique ==
    (pfn = "NewVMClonedFrom" /\ pdone) =>
      \A i, j \in 1..MaxHandles :
         (i < j /\ pout[i].err = Nil /\ pout[j].err = Nil) =>
            pout[i].vm.ident # pout[j].vm.ident


\* RunInteractiveCommand is returning, or has returned, the error of a setup step.
SetupFailed == tret.msgs # <<>> /\ Head(tret.msgs) \in InteractiveSetupMsgs

\* C25: a failure of session creation, raw mode, the size query, the PTY
\* request, a pipe or the command start is returned as the (wrapped) error of
\* RunInteractiveCommand; no stream-copy task has been started or is started
\* later, and the session, once created, is closed by the time of the return.
C25_SetupFailureBeforeStreaming ==
    SetupFailed =>
      /\ tret = Wrap(Head(tret.msgs), SSHError)
      /\ copyIn = "none" /\ copyOut = "none" /\ copyErr = "none"
      /\ remoteCmd = "none"
      /\ tpc \in {"unwind", "returned"}
      /\ (tpc = "returned" /\ Head(tret.msgs) # "failed to create session") => sessionClosed

C25_Witness ==
    /\ tret = Wrap("failed to start command", SSHError)
    /\ tpc = "returned"
    /\ sessionClosed
    /\ wpc # "none"
    /\ copyIn = "none"


\* C26: when stdin is not a terminal the proxy takes the non-interactive path
\* only: raw mode is never entered, no PTY is requested, no watcher and no
\* copy task is spawned, nothing is restored, and the command is run
\* synchronously: the proxy returns only once the command it started is over,
\* with the error of the run as it is.
C26_NonInteractiveWhenNotTerminal ==
    ~isTTY =>
      /\ ~rawMode /\ ~rawEntered /\ restoreCount = 0
      /\ \A i \in 1..Len(established) : established[i] = "run"
      /\ \A i \in 1..Len(tdefers) : tdefers[i] = "sessionClose"
      /\ wpc = "none"
      /\ copyIn = "none" /\ copyOut = "none" /\ copyErr = "none"
      /\ (tpc = "returned" /\ Has(established, "run")) =>
            /\ remoteCmd \in {"exited", "dropped"}
            /\ waitDone /\ tret = waitResult

C26_Witness ==
    /\ ~isTTY
    /\ tpc = "returned"
    /\ established = <<"run">>
    /\ remoteCmd = "exited"
    /\ tret = ExitError(1)


\* C27: once the remote command has exited, the three copy tasks complete by
\* themselves, the join finishes and RunInteractiveCommand returns.
C27_ReturnsAfterExit ==
    (remoteCmd = "exited") ~> (tpc \in {"returned", "panicked"})


\* C28: on teardown after the operator's cancellation the graceful stop request
\* is not aborted by the cancelled outer context: when the supervisor's run
\* context is cancelled and the run process killed, the request has been
\* issued and has run. This is stated for init's deferred stop as for the
\* command orchestrators.
C28_GracefulStopIssuedAfterCancel ==
    (interrupted /\ Has(trace, "ctxCancel") /\ runProc = "killed") =>
       (Before(trace, "stopInvoked", "ctxCancel") /\ stopCmdErr # CtxCanceled)


\* C29: a failure of the graceful stop request is swallowed: whatever the
\* request's outcome, Stop has cancelled the supervisor's context and joined
\* the supervisor when it returns, and what it returns is nil.
C29_StopFailureSwallowed ==
    /\ \A i \in 1..Len(calls) : calls[i].op = "Stop" => calls[i].res = Nil
    /\ pc = "apiStopRet" =>
         /\ lastErr = Nil
         /\ runCtxCancelled
         /\ wg = 0 /\ sup \in {"none", "done"}
         /\ Before(trace, "stopInvoked", "ctxCancel")

C29_Witness ==
    /\ pc = "apiStopRet"
    /\ stopCmdErr = ErrTartFailed("stop")
    /\ lastErr = Nil
    /\ runCtxCancelled
    /\ sup = "done"


\* C30: every connection attempt is bounded by its one-second budget, the
\* handshake as well as the dial: an attempt that has reached the handshake
\* ends, also against a peer that never completes it, so that the retry loop
\* goes on.
C30_AttemptBounded ==
    (spc = "handshake") ~> (spc # "handshake")


\* C31: when a fault unwinds RunInteractiveCommand after raw mode was entered,
\* the terminal is restored, once, by the time the recovering deferred call
\* has run; the fault stays raised and leaves the function as a fault, and the
\* deferred restore that runs after it restores nothing more.
C31_FaultRestoresAndPropagates ==
    /\ [][panicking => panicking']_vars
    /\ [](panicking => tpc \in {"unwind", "panicked"})
    /\ []((panicking /\ rawEntered /\ ~Has(tdefers, "recover")) =>
             (~rawMode /\ restored /\ restoreCount = 1))

C31_Witness ==
    /\ tpc = "panicked"
    /\ rawEntered /\ ~rawMode
    /\ restoreCount = 1
    /\ tdefers = <<>>


\* RunInteractiveCommand is past the wg.Wait() that follows session.Wait.
PassedJoin ==
    /\ isTTY /\ waitDone /\ ~panicking
    /\ tpc \in {"restore", "result", "unwind", "returned"}

\* C32: once RunInteractiveCommand has passed the join that follows the remote
\* command's completion, the three stream-copy tasks have ended, and none of
\* them takes a step (a read or a write on a stream) from then on.
C32_NoCopyAfterJoin ==
    /\ [](PassedJoin => (copyIn = "done" /\ copyOut = "done" /\ copyErr = "done"))
    /\ [][PassedJoin => copyT' = copyT]_vars

C32_Witness ==
    /\ PassedJoin
    /\ tpc = "returned"
    /\ inputs = 1
    /\ copyIn = "done" /\ copyOut = "done" /\ copyErr = "done"


\* C33: the arguments Start builds are --no-graphics --no-clipboard --no-audio,
\* then one --dir <value> pair for every mount, in the order of the mounts
\* given (nothing for no mount), then the identity of the VM, last.
C33_StartArgumentList ==
    (pfn = "Start" /\ pdone) =>
      LET n == Len(pin.mounts) IN
        /\ Len(pout) = 3 + 2 * n + 1
        /\ SubSeq(pout, 1, 3) = <<NoGraphics, NoClipboard, NoAudio>>
        /\ pout[Len(pout)] = pin.ident
        /\ \A k \in 1..n :
              /\ pout[3 + 2 * k - 1] = DirFlag
              /\ pout[3 + 2 * k] = ExpectedDirArg(pin.mounts[k])
        /\ Cardinality({k \in 1..Len(pout) : pout[k] = DirFlag}) = n

C33_Witness ==
    /\ pfn = "Start"
    /\ pdone
    /\ Len(pin.mounts) = 2
    /\ pin.mounts[1].Name = <<"d">> /\ pin.mounts[2].Name = <<"d", "o", "c", "s">>
    /\ pout[5] = ExpectedDirArg(pin.mounts[1])
    /\ pout[7] = ExpectedDirArg(pin.mounts[2])
    /\ pout[8] = pin.ident


\* The text between the first and the last character of s that is not white
\* space, by position.
Trimmed(s) ==
    LET ink == {k \in 1..Len(s) : s[k] \notin WhiteSpace} IN
    IF ink = {} THEN <<>>
    ELSE LET a == CHOOSE k \in ink : \A j \in ink : k <= j
             b == CHOOSE k \in ink : \A j \in ink : k >= j
         IN [k \in 1..(b - a + 1) |-> s[a + k - 1]]

\* C34: RetrieveIP makes exactly one control-plane invocation, ip --wait 30
\* <ident>, and does not retry; when it fails RetrieveIP returns the error of
\* the invocation as it is, with an empty address; when it succeeds RetrieveIP
\* returns the standard output without the white space at its ends.
C34_RetrieveIPOnce ==
    (pfn = "RetrieveIP" /\ pdone) =>
      /\ pout.cmds = <<<<<<"ip">>, <<"--wait">>, <<"30">>, pin.ident>>>>
      /\ pout.err = CmdErr(pin.runErr, pin.stderr, pin.stdout)
      /\ pin.runErr # "nil" => (pout.err.kind # "nil" /\ pout.ip = <<>>)
      /\ pin.runErr = "nil" => (pout.err.kind = "nil" /\ pout.ip = Trimmed(pin.stdout))

C34_Witness ==
    /\ pfn = "RetrieveIP"
    /\ pdone
    /\ pin.runErr = "nil"
    /\ pin.stdout = <<"\f", "x", "\n">>
    /\ pout.ip = <<"x">>


\* C35: when the run operation of the VM ends by itself after the check that
\* follows the address (the orchestrator waits for the connection, mounts or
\* runs the session), the orchestrator eventually returns, cleanup done,
\* without the operator doing anything.
C35_VMExitLeadsToReturn ==
    (/\ runProc \in {"exitedOk", "exitedErr"}
     /\ pc \in {"connect", "mount", "exec", "sessionWait"}
     /\ ~interrupted)
      ~> (interrupted \/ (pc = "done" /\ Before(trace, "stopInvoked", "deleteInvoked")))


\* C36: cancelling the orchestrator's context does not by itself end the run
\* process: a step that cancels it leaves the run process and the run context
\* as they are; the run context is cancelled only inside Stop, right after the
\* graceful stop request, and the run process is killed only by that cancel.
C36_RunContextIndependent ==
    /\ [][/\ (ctxCancelled' /\ ~ctxCancelled) =>
                (runProc' = runProc /\ tartVM' = tartVM /\ runCtxCancelled' = runCtxCancelled)
          /\ (runCtxCancelled' /\ ~runCtxCancelled) =>
                (pc = "stopCancel" /\ trace # <<>> /\ Last(trace) = "stopInvoked")
          /\ (runProc' = "killed" /\ runProc # "killed") =>
                (runCtxCancelled' /\ ~runCtxCancelled)]_vars
    /\ []((ctxCancelled /\ ~runCtxCancelled) => runProc # "killed")

C36_Witness ==
    /\ interrupted /\ ctxCancelled
    /\ ~runCtxCancelled
    /\ runProc = "running"
    /\ pc = "unwind"


\* C37: on a handle started at most once Stop always terminates, whether or
\* not anyone reads the completion signal: the supervisor finds the slot of
\* the channel free when it sends, so a Stop that has made its stop request
\* gets past its join and returns.
C37_StopTerminates ==
    /\ [](sup = "send" => errChan = <<>>)
    /\ (pc \in {"apiStopCancel", "apiStopJoin"}) ~> (pc = "apiStopRet")

C37_Witness ==
    /\ Len(calls) >= 1
    /\ calls[1].op = "Stop"
    /\ Len(errChan) = 1
    /\ sup = "done"
    /\ runProc = "killed"


\* The scope of the watcher exists and is not done.
ScopeLive == wpc # "none" /\ ~scopeCancelled /\ ~ctxCancelled

\* C38: while the scope is live a window-change signal is never lost, only
\* coalesced: after a signal the one-slot buffer of the watcher holds a signal,
\* so that the watcher reads the size again and forwards the size current
\* after the last signal of a burst.
C38_FinalSizeNotLost ==
    [][(resizes' = resizes + 1 /\ ScopeLive) => sigBuf' = 1]_vars

====
